---- MODULE Spec2Model ----
(***************************************************************************)
(* Model of the converged NovaAI engine of src/nova-algorithm.js (the      *)
(* second IIFE, lines 324-1086): text normalisation, corpus index, the     *)
(* ranking step of processQuery, the adaptive weight updates, persistence  *)
(* through localStorage, and handleSearch with its external-service path.  *)
(*                                                                         *)
(* Numbers.  JavaScript doubles are modelled in fixed point: a real x is   *)
(* the integer x * Scale (Scale = 10000), products are divided by Scale    *)
(* and rounded towards zero.  Strings are TLA+ strings handled character   *)
(* by character with Len, SubSeq and \o.                                   *)
(***************************************************************************)
EXTENDS Integers, Sequences, FiniteSets, TLC

(***************************************************************************)
(* Characters                                                              *)
(***************************************************************************)
LowerAlpha == "abcdefghijklmnopqrstuvwxyz"
UpperAlpha == "ABCDEFGHIJKLMNOPQRSTUVWXYZ"
DigitChars == "0123456789"

CharsOf(s) == {SubSeq(s, i, i) : i \in 1..Len(s)}
LowerSet == CharsOf(LowerAlpha)
UpperSet == CharsOf(UpperAlpha)
DigitSet == CharsOf(DigitChars)
AlnumSet == LowerSet \cup UpperSet \cup DigitSet

IndexIn(c, s) == CHOOSE i \in 1..Len(s) : SubSeq(s, i, i) = c

\* String.prototype.toLowerCase / toUpperCase on one character
LowerChar(c) == IF c \in UpperSet THEN SubSeq(LowerAlpha, IndexIn(c, UpperAlpha), IndexIn(c, UpperAlpha)) ELSE c
UpperChar(c) == IF c \in LowerSet THEN SubSeq(UpperAlpha, IndexIn(c, LowerAlpha), IndexIn(c, LowerAlpha)) ELSE c

RECURSIVE ToLowerCase(_)
ToLowerCase(s) ==
  IF s = "" THEN ""
  ELSE IF Len(s) = 1 THEN LowerChar(s)
  ELSE ToLowerCase(SubSeq(s, 1, Len(s) \div 2)) \o ToLowerCase(SubSeq(s, Len(s) \div 2 + 1, Len(s)))

\* String.prototype.charCodeAt for the characters a token can hold
CharCode(c) ==
  IF c \in LowerSet THEN 96 + IndexIn(c, LowerAlpha)
  ELSE IF c \in UpperSet THEN 64 + IndexIn(c, UpperAlpha)
  ELSE IF c \in DigitSet THEN 47 + IndexIn(c, DigitChars)
  ELSE IF c = "-" THEN 45
  ELSE IF c = " " THEN 32
  ELSE 63

EndsWith(s, suf) == Len(s) >= Len(suf) /\ SubSeq(s, Len(s) - Len(suf) + 1, Len(s)) = suf
StartsWith(s, pre) == Len(s) >= Len(pre) /\ SubSeq(s, 1, Len(pre)) = pre
\* String.prototype.includes
Includes(s, sub) == \E i \in 1..(Len(s) - Len(sub) + 1) : SubSeq(s, i, i + Len(sub) - 1) = sub

\* String.prototype.trim (space is the only white space the model's inputs hold)
RECURSIVE Trim(_)
Trim(s) ==
  IF s = "" THEN ""
  ELSE IF SubSeq(s, 1, 1) = " " THEN Trim(SubSeq(s, 2, Len(s)))
  ELSE IF SubSeq(s, Len(s), Len(s)) = " " THEN Trim(SubSeq(s, 1, Len(s) - 1))
  ELSE s

\* text.split(sep) for a separator predicate, empty pieces dropped (filter(Boolean))
RECURSIVE SplitOn(_, _, _, _, _)
SplitOn(s, seps, i, cur, acc) ==
  IF i > Len(s) THEN (IF cur = "" THEN acc ELSE Append(acc, cur))
  ELSE LET at == {j \in i..Len(s) : SubSeq(s, j, j) \in seps}
           next == IF at = {} THEN Len(s) + 1 ELSE CHOOSE j \in at : \A k \in at : j <= k
           piece == cur \o SubSeq(s, i, next - 1)
       IN SplitOn(s, seps, next + 1, "", IF piece = "" THEN acc ELSE Append(acc, piece))

RECURSIVE SplitAlnum(_, _, _, _)
SplitAlnum(s, i, cur, acc) ==
  IF i > Len(s) THEN (IF cur = "" THEN acc ELSE Append(acc, cur))
  ELSE LET at == {j \in i..Len(s) : SubSeq(s, j, j) \notin AlnumSet}
           next == IF at = {} THEN Len(s) + 1 ELSE CHOOSE j \in at : \A k \in at : j <= k
           piece == cur \o SubSeq(s, i, next - 1)
       IN SplitAlnum(s, next + 1, "", IF piece = "" THEN acc ELSE Append(acc, piece))

\* words joined by one space (Array.prototype.join(" "))
RECURSIVE JoinSp(_)
JoinSp(ws) ==
  IF ws = <<>> THEN ""
  ELSE IF Len(ws) = 1 THEN ws[1]
  ELSE ws[1] \o " " \o JoinSp(Tail(ws))

\* String(n) for n >= 0
RECURSIVE Numeral(_)
Numeral(n) ==
  IF n < 10 THEN SubSeq(DigitChars, n + 1, n + 1)
  ELSE Numeral(n \div 10) \o SubSeq(DigitChars, (n % 10) + 1, (n % 10) + 1)

\* arr.join(sep)
RECURSIVE JoinWith(_, _)
JoinWith(arr, sep) ==
  IF arr = <<>> THEN ""
  ELSE IF Len(arr) = 1 THEN arr[1]
  ELSE JoinWith(SubSeq(arr, 1, Len(arr) \div 2), sep) \o sep
         \o JoinWith(SubSeq(arr, Len(arr) \div 2 + 1, Len(arr)), sep)

RECURSIVE FlatMap(_, _)
FlatMap(F(_), xs) == IF xs = <<>> THEN <<>> ELSE F(Head(xs)) \o FlatMap(F, Tail(xs))

RECURSIVE SetToSeq(_)
SetToSeq(S) == IF S = {} THEN <<>> ELSE LET e == CHOOSE e \in S : TRUE IN <<e>> \o SetToSeq(S \ {e})

Range(f) == {f[i] : i \in DOMAIN f}

(***************************************************************************)
(* Text normalisation                                                      *)
(***************************************************************************)
STOP_WORDS == {"a", "an", "and", "are", "as", "at", "be", "by", "for", "from", "has",
               "have", "in", "is", "it", "of", "on", "or", "that", "the", "this", "to",
               "with", "what", "which", "when", "where", "how", "why"}

\* the alias table (named SYNONYMS in the source)
SYNONYMS == [ai |-> "artificial intelligence", llm |-> "large language model",
             vr |-> "virtual reality", btc |-> "bitcoin"]

STEM_SUFFIXES == <<"ing", "ed", "es", "s">>

stemWord(word) ==
  IF \E k \in 1..Len(STEM_SUFFIXES) : EndsWith(word, STEM_SUFFIXES[k])
  THEN LET k == CHOOSE j \in 1..Len(STEM_SUFFIXES) :
                   /\ EndsWith(word, STEM_SUFFIXES[j])
                   /\ \A h \in 1..(j - 1) : ~EndsWith(word, STEM_SUFFIXES[h])
       IN SubSeq(word, 1, Len(word) - Len(STEM_SUFFIXES[k]))
  ELSE word

\* a part starts at i when word[i] equals its own upper case (a capital or a
\* digit) and word[i-1] equals its own lower case (a small letter or a digit)
RECURSIVE SplitCamelFrom(_, _, _, _)
SplitCamelFrom(word, i, start, parts) ==
  IF i > Len(word) THEN Append(parts, SubSeq(word, start, Len(word)))
  ELSE LET c == SubSeq(word, i, i)
           p == SubSeq(word, i - 1, i - 1)
       IN IF c = UpperChar(c) /\ p = LowerChar(p)
          THEN SplitCamelFrom(word, i + 1, i, Append(parts, SubSeq(word, start, i - 1)))
          ELSE SplitCamelFrom(word, i + 1, start, parts)

splitCamelCase(word) == SplitCamelFrom(word, 2, 1, <<>>)

MapSeq(F(_), xs) == [i \in 1..Len(xs) |-> F(xs[i])]

StemLower(w) == stemWord(ToLowerCase(w))

TokenizeWord(word) ==
  LET lw == ToLowerCase(word)
      expanded == IF lw \in DOMAIN SYNONYMS THEN SYNONYMS[lw] ELSE word
  IN IF Includes(expanded, " ")
       THEN MapSeq(StemLower, SplitOn(expanded, {" "}, 1, "", <<>>))
     ELSE IF Includes(expanded, "_")
       THEN MapSeq(stemWord, SplitOn(expanded, {"_"}, 1, "", <<>>))
     ELSE IF \E i \in 1..Len(expanded) : SubSeq(expanded, i, i) \in UpperSet
       THEN MapSeq(stemWord, splitCamelCase(expanded))
     ELSE <<stemWord(expanded)>>

KeepToken(t) == t \notin STOP_WORDS /\ Len(t) > 1

\* smartTokenize without its cache: the cache returns the stored result of the
\* same computation, so the value is a function of the text alone
smartTokenize(text) ==
  SelectSeq(MapSeq(ToLowerCase, FlatMap(TokenizeWord, SplitAlnum(text, 1, "", <<>>))), KeepToken)

generateSubwords(word) ==
  IF Len(word) <= 3 THEN <<>>
  ELSE [i \in 1..(Len(word) - 2) |-> SubSeq(word, i, i + 2)]

ngrams(arr, n) ==
  IF Len(arr) < n THEN <<>>
  ELSE [i \in 1..(Len(arr) - n + 1) |-> JoinSp(SubSeq(arr, i, i + n - 1))]

extractPhrases(toks) == ngrams(toks, 2) \o ngrams(toks, 3)

\* bag(arr): the keys are Range(arr), the count of a key is its multiplicity
Count(arr, w) == Cardinality({i \in DOMAIN arr : arr[i] = w})

(***************************************************************************)
(* Fixed point                                                             *)
(***************************************************************************)
\* one unit of the fixed-point representation is 1 / Scale
Scale == 100 * 100

Min(a, b) == IF a <= b THEN a ELSE b
Max(a, b) == IF a >= b THEN a ELSE b

RECURSIVE SumSeq(_)
SumSeq(xs) == IF xs = <<>> THEN 0 ELSE Head(xs) + SumSeq(Tail(xs))

RECURSIVE SumOver(_, _)
SumOver(F(_), S) ==
  IF S = {} THEN 0
  ELSE LET e == CHOOSE e \in S : TRUE IN F(e) + SumOver(F, S \ {e})

\* Math.log at the integers 1..16, times Scale, rounded
LnTable == <<0, 6931, 10986, 13863, 16094, 17918, 19459, 20794,
             21972, 23026, 23979, 24849, 25649, 26391, 27081, 27726>>

\* Math.log(1 + v) for a fixed-point v >= 0: exact at whole v, linear between
Ln1p(v) ==
  LET n == Min(v \div Scale, Len(LnTable) - 2)
      frac == v - n * Scale
  IN LnTable[n + 1] + ((LnTable[n + 2] - LnTable[n + 1]) * frac) \div Scale

\* floor of the square root, by bisection
RECURSIVE SqrtBetween(_, _, _)
SqrtBetween(n, lo, hi) ==
  IF hi - lo <= 1 THEN lo
  ELSE LET mid == (lo + hi) \div 2 IN
       IF mid * mid <= n THEN SqrtBetween(n, mid, hi) ELSE SqrtBetween(n, lo, mid)

ISqrt(n) == SqrtBetween(n, 0, Min(n + 1, 46340))

(***************************************************************************)
(* Concepts and related terms                                              *)
(***************************************************************************)
Null == "<null>"

RELATED_TERMS == [
  ai |-> <<"machine-learning", "neural-networks", "deep-learning">>,
  blockchain |-> <<"decentralized", "ledger", "cryptocurrency">>,
  quantum |-> <<"qubits", "superposition", "entanglement">>,
  health |-> <<"wellness", "nutrition", "fitness">>,
  environment |-> <<"sustainability", "climate", "ecology">>]

\* the keyword lists of future-tech, green-tech, data-security and
\* human-augmentation, in the order of the object's keys
CONCEPTS == <<
  <<"ai", "quantum-tech", "blockchain", "digital-twins", "augmented-reality">>,
  <<"environment", "biochar", "carbon-capture", "offshore-wind">>,
  <<"zero-trust", "cryptography", "blockchain">>,
  <<"health", "wearable-tech", "augmented-reality", "soft-robotics">> >>

\* Object.entries(CONCEPTS).filter(([_, keywords]) => ws.some(w => keywords.includes(w)))
ConceptsOf(ws) == {c \in DOMAIN CONCEPTS : \E k \in DOMAIN ws : ws[k] \in Range(CONCEPTS[c])}

RelatedOf(w) == IF w \in DOMAIN RELATED_TERMS THEN RELATED_TERMS[w] ELSE <<>>

(***************************************************************************)
(* The corpus (kb.json).  A fact carries text, keywords, topic and the     *)
(* optional metadata fields; an absent field is "" / <<>> / 0, the values   *)
(* the code's `||` and `?.` treat as absent.  updatedAt is <<>> (absent)   *)
(* or <<day>>; it and the clock are in days, day 0 being the day the       *)
(* engine was constructed.                                                 *)
(***************************************************************************)

KB == <<
  [text |-> "Quantum computers use qubits.", keywords |-> <<"quantum", "qubit">>,
   topic |-> "quantum", subtopics |-> <<"hardware">>, category |-> "", priority |-> 0,
   updatedAt |-> <<>>],
  [text |-> "Solar panels capture energy.", keywords |-> <<"solar">>,
   topic |-> "energy/solar", subtopics |-> <<>>, category |-> "", priority |-> 7000,
   updatedAt |-> <<>>],
  [text |-> "Solar panels capture energy.", keywords |-> <<"solar">>,
   topic |-> "home/solar", subtopics |-> <<>>, category |-> "", priority |-> 7000,
   updatedAt |-> <<-100>>],
  [text |-> "Blockchain ledgers record trades.", keywords |-> <<"blockchain">>,
   topic |-> "blockchain", subtopics |-> <<>>, category |-> "finance", priority |-> 10000,
   updatedAt |-> <<>>]
>>

N == Len(KB)
Docs == 1..N
\* fact.id = fact.id || idx : no fact of the corpus carries an id of its own
FactId(i) == i - 1

(***************************************************************************)
(* The index the constructor builds (lines 521-553)                        *)
(***************************************************************************)
\* topic.split('/')[0]
FirstPart(topic, parts) == IF StartsWith(topic, "/") \/ parts = <<>> THEN "" ELSE parts[1]

\* fact.category = fact.metadata.category || fact.topic.split('/')[0]
FactCategory(f) ==
  IF f.category # "" THEN f.category ELSE FirstPart(f.topic, SplitOn(f.topic, {"/"}, 1, "", <<>>))

\* the text the constructor tokenizes
FactText(f) == f.text \o " " \o JoinSp(f.keywords) \o " " \o JoinSp(f.subtopics)

\* bag(arr): the keys are Range(arr), the count of a key is its multiplicity
bag(arr) == [t \in Range(arr) |-> Count(arr, t)]

\* [...words, ...subwords, ...ngrams(words, 2)]
AllTokens(words) == words \o FlatMap(generateSubwords, words) \o ngrams(words, 2)

\* the fields the constructor adds to a fact whose tokens are words
IndexedFact(f, words) ==
  [tokens |-> words, docLen |-> Len(words), bow |-> bag(AllTokens(words)),
   phrases |-> extractPhrases(words), category |-> FactCategory(f),
   concepts |-> ConceptsOf(f.keywords), topic |-> f.topic, subtopics |-> f.subtopics,
   updatedAt |-> f.updatedAt]

IndexFacts(facts) == [i \in DOMAIN facts |-> IndexedFact(facts[i], smartTokenize(FactText(facts[i])))]

\* this.df[term]
DocFreq(facts, t) == Cardinality({i \in DOMAIN facts : t \in DOMAIN facts[i].bow})

\* this.idf[term] = ln((N - df + 0.5) / (df + 0.5) + 1) = ln((2N + 2) / (2 df + 1))
Idf(facts) ==
  [t \in UNION {DOMAIN facts[i].bow : i \in DOMAIN facts} |->
     LnTable[2 * Len(facts) + 2] - LnTable[2 * DocFreq(facts, t) + 1]]

\* this.totalDocLen
TotalDocLen(facts) == SumSeq([i \in DOMAIN facts |-> facts[i].docLen])

\* one BM25 summand, k1 = 1.2, b = 0.75:
\*   idf * tf * (k1 + 1) / (tf + k1 * (1 - b + b * docLen / avgDocLen))
\* with avgDocLen = totalDocLen / N, numerator and denominator times 10 * totalDocLen
BM25Term(tf, idf, docLen, totalDocLen, n) ==
  (idf * tf * 22 * totalDocLen) \div (10 * tf * totalDocLen + 3 * totalDocLen + 9 * docLen * n)

\* the BM25 summand of every term of a fact's bag
BM25Row(fact, idf, totalDocLen, n) ==
  [t \in DOMAIN fact.bow |-> BM25Term(fact.bow[t], idf[t], fact.docLen, totalDocLen, n)]

WithStatistics(facts, idf, totalDocLen) ==
  [facts |-> facts, idf |-> idf,
   bm25 |-> [i \in DOMAIN facts |-> BM25Row(facts[i], idf, totalDocLen, Len(facts))],
   subtopicIndex |-> UNION {Range(facts[i].subtopics) : i \in DOMAIN facts},
   categoryIndex |-> {facts[i].category : i \in DOMAIN facts} \ {""}]

BuildIndex(facts) == WithStatistics(facts, Idf(facts), TotalDocLen(facts))

(***************************************************************************)
(* Model bounds and inputs                                                 *)
(***************************************************************************)
\* operations in a run: calls of handleSearch, processQuery, applyFeedback and
\* loadPersistedData, and advances of the clock
MaxOps == 3
\* requests to the external service in flight at once
MaxPending == 1
\* days by which the clock advances in one step
TickDays == 300

\* what the search box can hold when handleSearch runs
SearchInputs == {"what is quantum", "zzz nonsense", "solar panels",
                 "blockchain ledgers record trades",
                 "weather in paris", "food near me", "search 12 main st", "  "}
\* what a caller can pass to processQuery
DirectQueries == {"  ", "what is quantum"}
\* the ids a feedback button or a caller can pass to applyFeedback
FeedbackIds == {1, N - 1, N}
\* searches and saved bookmarks behind a session in progress
PriorSearches == 9
PriorBookmarks == 14
\* what a caller can pass to saveQuery and bookmarkFact
BookmarkTexts == {"b1", "n1", "n2", "n3"}
\* the queries passed to detectIntent: a beginning, a middle and an end, so
\* that none, one or several of the patterns match
IntentHeads == {"", "what is ", "Explain ", "define", "compare ", "search ", "address "}
IntentMiddles == {"", "qubits", "best of", "to", "food near me", "a,b"}
IntentTails == {"", " weather", " forecast in new york", "!", " to"}
IntentQueries == {h \o m \o t : h \in IntentHeads, m \in IntentMiddles, t \in IntentTails}
\* a corpus for generateChips: texts of few and of long words, a text that
\* occurs twice, a topic too long for a chip, facts with related topics
ChipFact(text, keywords, topic, category, relatedTopics) ==
  [text |-> text, keywords |-> keywords, topic |-> topic, category |-> category,
   relatedTopics |-> relatedTopics]
ChipCorpus == <<
  ChipFact("Quantum computers use qubits.", <<"quantum", "qubit">>, "quantum", "quantum",
           <<"entanglement", "superposition", "cryptography">>),
  ChipFact("Blockchain ledgers record trades.", <<"blockchain">>, "blockchain", "finance", <<>>),
  ChipFact("Solar panels capture energy.", <<"solar">>,
           "energy/solar/photovoltaics/residential/rooftop-installations", "energy", <<>>),
  ChipFact("Solar panels capture energy.", <<"solar">>, "home/solar", "home", <<>>),
  ChipFact("Electroencephalography neurotransmitters counterrevolutionaries help today.",
           <<"health">>, "health", "health", <<"wellness">>),
  ChipFact("Wind turbines turn.", <<"offshore-wind">>, "wind", "energy", <<>>),
  ChipFact("Biochar stores carbon in soil for centuries.", <<"biochar">>, "soil", "soil", <<>>),
  ChipFact("Tides move water.", <<>>, "tides", "energy", <<>>),
  ChipFact("Zero trust networks.", <<"zero-trust">>, "security", "security", <<>>),
  ChipFact("Soft robots bend.", <<"soft-robotics">>, "robots", "robots", <<>>),
  ChipFact("Wearables track health.", <<"wearable-tech">>, "health", "health", <<>>),
  ChipFact("Offshore wind farms grow.", <<"offshore-wind">>, "wind", "energy", <<>>) >>
\* ranked lists over that corpus, by position in it
ChipRankings == {<<1>>, <<2, 1>>, <<2, 1, 3, 4, 5, 6, 7, 8, 9, 10, 11, 12>>,
                 <<3, 8, 4, 5, 9, 10, 7, 6, 11, 12>>, <<8, 1, 2, 5, 3, 4, 6, 7, 9>>,
                 <<1, 2, 3, 4, 5, 6>>}
\* the queries generateChips is called with
ChipQueries == {"what is quantum", "the", "compare quantum blockchain to solar energy panels",
                "pneumonoultramicroscopicsilicovolcanoconiosis"}
\* context.lastTopic at the call
ChipLastTopics == {"<null>", "", "quantum", "blockchain"}
\* how often the query's intent was seen, this query included
ChipIntentCounts == {1, 3}
\* the outcomes of shuffle that are explored
ShuffleSeeds == {0, 1, 2}
\* a corpus for the composers: the facts of KB and three long texts;
\* `similar` holds the ids of the facts whose embedding is within cos > 0.7
LongTextWords == <<45, 60, 120>>
ComposeFact(id, text, keywords, topic, similar) ==
  [id |-> id, text |-> text, keywords |-> keywords, topic |-> topic, similar |-> similar]
ComposeCorpus == <<
  ComposeFact(0, KB[1].text, KB[1].keywords, KB[1].topic, {}),
  ComposeFact(1, KB[2].text, KB[2].keywords, KB[2].topic, {2}),
  ComposeFact(2, KB[3].text, KB[3].keywords, KB[3].topic, {1}),
  ComposeFact(3, KB[4].text, KB[4].keywords, KB[4].topic, {}),
  ComposeFact(4, JoinWith([k \in 1..LongTextWords[1] |-> "wind"], " ") \o ".", <<"wind">>, "wind", {5}),
  ComposeFact(5, JoinWith([k \in 1..LongTextWords[2] |-> "Tides"], " "), <<"tides">>, "tides", {4}),
  ComposeFact(6, JoinWith([k \in 1..LongTextWords[3] |-> "soil"], " ") \o ".", <<"soil">>, "soil", {}) >>
\* ranked lists over that corpus, by position in it
ComposeRankings == {<<1>>, <<4, 1>>, <<1, 4>>, <<1, 2, 3>>, <<4, 1, 2, 3>>, <<2, 3, 1, 4>>,
                    <<5, 6, 1>>, <<1, 5, 6, 7>>, <<6, 5, 7>>, <<7, 1, 2>>, <<5, 1, 6, 2, 7, 3>>,
                    <<1, 2, 5, 3, 4, 6, 7>>}
\* the queries the composers are called for
ComposeQueries == {"what is quantum", "Explain  blockchain quantum", "define tides",
                   "list of top energy", "best of wind", "compare quantum to blockchain",
                   "Compare solar panels to wind", "compare to", "solar panels", "mark tides"}
\* a query that is a subword of a fact's token, scored like the others
Bm25Queries == {"sol"}
\* the queries of the history entries behind a scored query, oldest first
Bm25HistoryQueries == {"what is quantum", "solar panels", "zzz nonsense"}
MaxBm25History == 2
\* how many distinct texts were tokenized before the calls that are explored
PriorTokenized == 996
\* the texts passed to smartTokenize: one tokenized long ago, one tokenized
\* by the constructor, and texts not seen before
TokenTexts == {"t1", FactText(KB[1]), "Quantum Computing", "smart_contract", "the of", "machine learning",
               "blockchain"}
BookmarkIds == {0, 1, 2, N}
\* bodies the external service can answer with: JSON in the shape of a response
ServiceData == {[topic |-> "weather", category |-> "Weather", main |-> "Sunny in Paris",
                 details |-> <<>>, related |-> <<>>, cites |-> <<>>]}

(***************************************************************************)
(* Intent detection (INTENT_PATTERNS, detectIntent)                        *)
(***************************************************************************)
WsSet == {" ", "\t", "\n"}
\* \w
WordCharSet == AlnumSet \cup {"_"}

AllIn(s, set) == \A i \in 1..Len(s) : SubSeq(s, i, i) \in set
Rest(s, i) == SubSeq(s, i, Len(s))
\* the positions right after an occurrence of one of the words in s
EndsOf(s, ws) == {i + Len(w) : i \in 1..Len(s), w \in ws} \cap
                 {j \in 1..(Len(s) + 1) : \E w \in ws : j > Len(w) /\ SubSeq(s, j - Len(w), j - 1) = w}
\* r matches \s+X$ where X is one or more characters of set (white space included)
WsThenClass(r, set) == Len(r) >= 2 /\ SubSeq(r, 1, 1) \in WsSet /\ AllIn(r, set)
\* r matches \s+word followed by anything
RECURSIVE SkipWs(_)
SkipWs(r) == IF r # "" /\ SubSeq(r, 1, 1) \in WsSet THEN SkipWs(Rest(r, 2)) ELSE r
WsThenWord(r, w) == r # "" /\ SubSeq(r, 1, 1) \in WsSet /\ StartsWith(SkipWs(r), w)

\* /^(explain|what is|define)\s+/i
IsDefinition(q) ==
  \E w \in {"explain", "what is", "define"} :
     StartsWith(q, w) /\ Len(q) > Len(w) /\ SubSeq(q, Len(w) + 1, Len(w) + 1) \in WsSet
\* /compare.*to/i   (`.` matches anything but a line break)
DotStarThen(r, w) == \E i \in 1..Len(r) : StartsWith(Rest(r, i), w) /\ ~Includes(SubSeq(r, 1, i - 1), "\n")
IsComparison(q) == \E e \in EndsOf(q, {"compare"}) : DotStarThen(Rest(q, e), "to")
\* /(list|top|best).*of/i
IsList(q) == \E e \in EndsOf(q, {"list", "top", "best"}) : DotStarThen(Rest(q, e), "of")
\* /(weather|forecast)\s*(in\s+[\w\s]+)?$/i
IsWeather(q) ==
  \E e \in EndsOf(q, {"weather", "forecast"}) :
     LET r == SkipWs(Rest(q, e)) IN
     \/ r = ""
     \/ StartsWith(r, "in") /\ WsThenClass(Rest(r, 3), WordCharSet \cup WsSet)
\* /(food|restaurants)\s+near\s+me/i
IsFood(q) ==
  \E e \in EndsOf(q, {"food", "restaurants"}) :
     /\ WsThenWord(Rest(q, e), "near")
     /\ WsThenWord(Rest(SkipWs(Rest(q, e)), 5), "me")
\* /^(search|address)\s+[\w\s,.-]+$/i
IsAddress(q) ==
  \E w \in {"search", "address"} :
     StartsWith(q, w) /\ WsThenClass(Rest(q, Len(w) + 1), WordCharSet \cup WsSet \cup {",", ".", "-"})

Intents == <<"definition", "comparison", "list", "weather", "food", "address", "general">>

\* the i-th pattern of INTENT_PATTERNS tested on the query, case-insensitively
PatternMatches(i, query) ==
  LET q == ToLowerCase(query) IN
  CASE i = 1 -> IsDefinition(q)
    [] i = 2 -> IsComparison(q)
    [] i = 3 -> IsList(q)
    [] i = 4 -> IsWeather(q)
    [] i = 5 -> IsFood(q)
    [] i = 6 -> IsAddress(q)
    [] OTHER -> TRUE

\* a variant of detectIntent that returns the last of the six named intents
\* whose pattern matches
detectIntentLastMatch(query) ==
  IF \A i \in 1..6 : ~PatternMatches(i, query) THEN "general"
  ELSE Intents[CHOOSE i \in 1..6 :
                 PatternMatches(i, query) /\ \A j \in (i + 1)..6 : ~PatternMatches(j, query)]

\* the first intent, in the order of the object's keys, whose pattern matches
detectIntent(query) ==
  Intents[CHOOSE i \in DOMAIN Intents :
            PatternMatches(i, query) /\ \A j \in 1..(i - 1) : ~PatternMatches(j, query)]

(***************************************************************************)
(* What processQuery derives from the query string and the index alone     *)
(* (lines 735-761, 790-797, 808-809), computed once for every string the   *)
(* model can meet                                                          *)
(***************************************************************************)
AllQueries == {Trim(input) : input \in SearchInputs} \cup DirectQueries \cup Bm25Queries

\* idf[t] || 1
IdfOr1(idf, t) == IF t \in DOMAIN idf /\ idf[t] # 0 THEN idf[t] ELSE Scale

\* the numerator and the denominator of weightedTrigramSimilarity for the
\* trigram sets aT and bT
weightedTrigramSimilarityOver(aT, bT, idf) ==
  LET w(t) == IdfOr1(idf, t)
  IN [intersection |-> SumOver(w, aT \cap bT), union |-> SumOver(w, aT \cup bT)]

\* union ? intersection / union : 0, compared with 0.5
AboveHalf(r) == r.union # 0 /\ 2 * r.intersection > r.union

\* weightedTrigramSimilarity(a, b, idf) > 0.5
FuzzyMatch(a, b, idf) ==
  AboveHalf(weightedTrigramSimilarityOver(Range(generateSubwords(a)), Range(generateSubwords(b)), idf))

\* the signals of a fact that depend on the query string alone
StaticSignals(fact, words, queryPhrases, queryConcepts, ix) ==
  [phraseBoost |->
     (Cardinality({k \in DOMAIN fact.phrases : fact.phrases[k] \in Range(queryPhrases)}) * Scale)
        \div Max(1, Len(queryPhrases)),
   fuzzyBonus |->
     Min(5000, (2500 * Cardinality({k \in DOMAIN words :
                         \E j \in DOMAIN fact.tokens : FuzzyMatch(words[k], fact.tokens[j], ix.idf)}))
                  \div Max(1, Len(words))),
   conceptBoost |-> IF queryConcepts \cap fact.concepts # {} THEN 1500 ELSE 0,
   subtopicBoost |->
     IF Range(fact.subtopics) \cap (Range(words) \cap ix.subtopicIndex) # {} THEN 1000 ELSE 0,
   categoryMatchBoost |-> IF fact.category \in Range(words) \cap ix.categoryIndex THEN 2000 ELSE 0]

QueryRecord(query, words, queryConcepts, ix) ==
  [words |-> words, intent |-> detectIntent(query), concepts |-> queryConcepts,
   static |-> [i \in DOMAIN ix.facts |->
                 StaticSignals(ix.facts[i], words, extractPhrases(words), queryConcepts, ix)]]

AnalyseQuery(query, words, ix) == QueryRecord(query, words, ConceptsOf(words), ix)

\* the analysis of every query string of the model
AnalyseQueries(qs, ix) == [q \in qs |-> AnalyseQuery(q, smartTokenize(q), ix)]

(***************************************************************************)
(* Pseudo-embeddings                                                       *)
(***************************************************************************)
EMBED_DIM == 100
\* one step of hash = (hash * 31 + code) & 0x7fffffff, on 16-bit halves so
\* that no intermediate value leaves 32 bits
HashStep(hash, code) ==
  LET lo == (hash % 65536) * 31 + code
      hi == (((hash \div 65536) * 31) + (lo \div 65536)) % 32768
  IN hi * 65536 + (lo % 65536)

RECURSIVE HashFrom(_, _, _)
HashFrom(str, i, hash) ==
  IF i > Len(str) THEN hash
  ELSE HashFrom(str, i + 1, HashStep(hash, CharCode(SubSeq(str, i, i))))

simpleHash(str) == HashFrom(str, 1, 0)

\* the buckets the trigrams of a token are hashed into
Buckets(tris) == [k \in DOMAIN tris |-> simpleHash(tris[k]) % EMBED_DIM]

\* pseudoEmbed of one token before the division by the number of trigrams
\* and the L2 normalisation: bucket -> number of trigrams hashed into it.
\* Cosine similarity is unchanged by both scalings.
EmbedCounts(bucket) ==
  [b \in Range(bucket) |-> Cardinality({k \in DOMAIN bucket : bucket[k] = b})]

Dot(a, b) == LET P(k) == a[k] * b[k] IN SumOver(P, DOMAIN a \cap DOMAIN b)

\* every token the model can embed: fact tokens, query tokens, related terms
EmbedVocabulary(ix, queries) ==
  UNION {Range(ix.facts[i].tokens) : i \in DOMAIN ix.facts}
    \cup UNION {Range(queries[q].words) : q \in DOMAIN queries}
    \cup UNION {Range(RELATED_TERMS[k]) : k \in DOMAIN RELATED_TERMS}

TokenVectors(vocabulary) == [t \in vocabulary |-> EmbedCounts(Buckets(generateSubwords(t)))]

\* the dot products of the count vectors of any two tokens
TokenDots(vec) == [t \in DOMAIN vec |-> [u \in DOMAIN vec |-> Dot(vec[t], vec[u])]]

\* the dot product of the count vectors of two token lists: the count vector
\* of a list is the sum of its tokens' vectors, and the product is bilinear
DotOfTokens(as, bs, dots) ==
  LET row(i) == LET col(j) == dots[as[i]][bs[j]] IN SumOver(col, DOMAIN bs)
  IN SumOver(row, DOMAIN as)

\* pseudoEmbed(tokens): the vector, kept as the tokens it accumulates, and
\* its squared magnitude
pseudoEmbed(toks, dots) == [toks |-> toks, mag |-> DotOfTokens(toks, toks, dots)]

\* floor((q * den + r) * 10^digits / den), one decimal digit at a time
RECURSIVE LongDiv(_, _, _, _)
LongDiv(q, r, den, digits) ==
  IF digits = 0 THEN q
  ELSE LongDiv(q * 10 + (r * 10) \div den, (r * 10) % den, den, digits - 1)

\* dot / sqrt(magA * magB), to three decimals
Cosine(dot, magA, magB) ==
  IF dot = 0 THEN 0
  ELSE 10 * ISqrt(LongDiv((dot * dot) \div (magA * magB), (dot * dot) % (magA * magB),
                          magA * magB, 6))

\* cos(a, b) = dot ? dot / sqrt(magA * magB) : 0
cos(a, b, dots) == Cosine(DotOfTokens(a.toks, b.toks, dots), a.mag, b.mag)

\* what the engine holds once constructed: the index, fact.embedding, and
\* the tables over the model's query strings and tokens
WithDots(ix, queries, dots) ==
  [index |-> ix, queries |-> queries, dots |-> dots,
   embedding |-> [i \in DOMAIN ix.facts |-> pseudoEmbed(ix.facts[i].tokens, dots)]]

WithQueries(ix, queries) ==
  WithDots(ix, queries, TokenDots(TokenVectors(EmbedVocabulary(ix, queries))))

BuildEngine(ix) == WithQueries(ix, AnalyseQueries(AllQueries, ix))

Engine == BuildEngine(BuildIndex(IndexFacts(KB)))

\* the statistics the constructor computes when this.kb is [] (lines 516-554)
EmptyEngine == BuildEngine(BuildIndex(IndexFacts(<<>>)))

\* the index behind a fact table: the constructor builds it from this.kb
EngineOf(kbv) == IF DOMAIN kbv = {} THEN EmptyEngine ELSE Engine

\* detectIntent(query) for a query of the model
IntentOf(query) == Engine.queries[query].intent

(***************************************************************************)
(* Query analysis in a session (processQuery, lines 740-775)               *)
(***************************************************************************)
LastK(xs, k) == SubSeq(xs, Max(1, Len(xs) - k + 1), Len(xs))

\* the tokens of the queries of this.context.history.slice(-3)
HistoryTokens(lastQueries, queries) ==
  UNION {Range(queries[lastQueries[k].query].words) : k \in DOMAIN lastQueries}

\* Object.keys(qBow): the words, their related terms and, for a query of
\* fewer than 4 words in a session with history, the tokens of the last 3
\* queries (the weights of qBow are read by no signal)
QBowKeys(words, ctx, queries) ==
  Range(words) \cup Range(FlatMap(RelatedOf, words))
    \cup (IF Len(words) < 4 /\ Len(ctx.history) > 0
          THEN HistoryTokens(LastK(ctx.history, 3), queries) ELSE {})

\* userConceptProfile: concept -> number of history queries carrying it
ConceptProfile(ctx, queries) ==
  [c \in DOMAIN CONCEPTS |->
     Cardinality({k \in DOMAIN ctx.history : c \in queries[ctx.history[k].query].concepts})]

\* what processQuery holds when it starts to score the facts
AnalysisOf(query, keys, ctx, eng) ==
  [query |-> query, keys |-> keys, qEmbedding |-> pseudoEmbed(SetToSeq(keys), eng.dots),
   profile |-> ConceptProfile(ctx, eng.queries), numQueries |-> Len(ctx.history)]

Analysis(query, ctx, eng) ==
  AnalysisOf(query, QBowKeys(eng.queries[query].words, ctx, eng.queries), ctx, eng)

(***************************************************************************)
(* Scoring (processQuery, lines 777-815)                                   *)
(***************************************************************************)
\* freshnessScore, the clock and updatedAt in days
Freshness(updatedAt, nowDay) ==
  IF updatedAt = <<>> THEN 0
  ELSE Max(0, Scale - ((nowDay - updatedAt[1]) * Scale) \div 365)

\* the signals of a fact that depend on the session and the clock
\* a variant of BM25 that sums the summands of every term of the fact's bag
BM25OverBag(keys, bm25Row) ==
  LET term(t) == bm25Row[t] IN SumOver(term, DOMAIN bm25Row)

\* let bm25 = 0; for (const term in qBow) if (fact.bow[term]) bm25 += ...
BM25(keys, bm25Row) ==
  LET term(t) == bm25Row[t] IN SumOver(term, keys \cap DOMAIN bm25Row)

SessionSignals(entry, bm25Row, embedding, a, ctx, nowDay, dots) ==
  LET prof(c) == a.profile[c]
  IN [bm25 |-> BM25(a.keys, bm25Row),
      denseSim |-> cos(a.qEmbedding, embedding, dots),
      contextBoost |-> IF entry.topic = ctx.currentTopic THEN 2000 ELSE 0,
      categoryBoost |-> IF entry.category = ctx.currentCategory THEN 1500 ELSE 0,
      personalizationScore |-> (SumOver(prof, entry.concepts) * Scale) \div Max(1, a.numQueries),
      freshnessScore |-> Freshness(entry.updatedAt, nowDay)]

\* (0.40 * bm25 + ... + categoryMatchBoost) * fact.weight
Combine(d, st, weight) ==
  (((40 * d.bm25 + 20 * st.phraseBoost + 15 * st.fuzzyBonus + 10 * d.denseSim
       + 5 * d.personalizationScore + 5 * d.freshnessScore) \div 100
    + d.contextBoost + d.categoryBoost + st.conceptBoost + st.subtopicBoost
    + st.categoryMatchBoost) * weight) \div Scale

\* the score of fact i (fact: its mutable fields) for an analysed query
Score(i, fact, a, ctx, nowDay, eng) ==
  Combine(SessionSignals(eng.index.facts[i], eng.index.bm25[i], eng.embedding[i], a, ctx,
                         nowDay, eng.dots),
          eng.queries[a.query].static[i], fact.weight)

(***************************************************************************)
(* State                                                                   *)
(***************************************************************************)
VARIABLES
  kb,            \* fact index -> [views, feedback, lastView, weight]
  context,       \* this.context
  queryCache,    \* this.queryCache : query -> response
  queryPatterns, \* this.queryPatterns : intent -> count
  bookmarks,     \* this.bookmarks
  store,         \* localStorage under this session's four keys
  pending,       \* fetch promises not yet settled
  shown,         \* what renderResults showed last (the result area)
  renders,       \* accepted query -> the renderResults calls made for it, in order
  now,           \* Date.now(), in days
  tokenCache,    \* the module's tokenCache: its entries in insertion order
  accepted,      \* number of queries handleSearch has accepted
  ctxOwner,      \* the accepted query whose response last wrote the context
  ops,           \* operations so far
  lastOp         \* the operation that produced this state, with its result

vars == <<kb, context, queryCache, queryPatterns, bookmarks, store, pending,
          shown, renders, now, tokenCache, accepted, ctxOwner, ops, lastOp>>

\* a localStorage key: never written, or holding a value
Absent == [has |-> FALSE]
Stored(v) == [has |-> TRUE, val |-> v]

\* the weight floor and ceiling used by applyFeedback
WEIGHT_FLOOR == 7000
WEIGHT_CEIL == Scale
TOP_K == 8
MAX_HISTORY == 10

\* fact.metadata.priority || 0.8
Priority(i) == IF KB[i].priority # 0 THEN KB[i].priority ELSE 8000

(***************************************************************************)
(* Persistence                                                             *)
(***************************************************************************)
\* VIEW_DECAY ** days, by repeated squaring
RECURSIVE PowDecay(_)
PowDecay(days) ==
  IF days <= 0 THEN Scale
  ELSE LET h == PowDecay(days \div 2)
           sq == (h * h) \div Scale
       IN IF days % 2 = 1 THEN (sq * 95) \div 100 ELSE sq

\* 0.04 * Math.log(1 + views) + 0.02 * feedback
Boost(views, feedback) == (4 * Ln1p(views)) \div 100 + 200 * feedback

\* the object savePersistedData writes under nova_fact_views_<session>;
\* JSON.stringify / JSON.parse keep these numbers and strings as they are
ViewsToStore(kbv) ==
  LET ids == {i \in DOMAIN kbv : kbv[i].views > 0 \/ kbv[i].feedback # 0}
  IN [i \in ids |-> [count |-> kbv[i].views, lastView |-> kbv[i].lastView,
                     feedback |-> kbv[i].feedback]]

\* a variant of savePersistedData that leaves the history key unwritten
savePersistedDataWithoutHistory(kbv, history, bm, patterns) ==
  [views |-> Stored(ViewsToStore(kbv)), context |-> Absent,
   bookmarks |-> Stored(bm), patterns |-> Stored(patterns)]

savePersistedData(kbv, history, bm, patterns) ==
  [views |-> Stored(ViewsToStore(kbv)), context |-> Stored(history),
   bookmarks |-> Stored(bm), patterns |-> Stored(patterns)]

\* localStorage.getItem(key) || fallback
StoredOr(st, key, fallback) == IF st[key].has THEN st[key].val ELSE fallback

LoadedFact(i, fact, views, nowDay) ==
  IF i \in DOMAIN views
  THEN LET decayed == (views[i].count * PowDecay(nowDay - views[i].lastView)) \div Scale
       IN [views |-> decayed, lastView |-> views[i].lastView, feedback |-> views[i].feedback,
           weight |-> Min(WEIGHT_CEIL, Priority(i) + Boost(decayed, views[i].feedback))]
  ELSE [fact EXCEPT !.weight = Priority(i)]

(***************************************************************************)
(* Ranking                                                                 *)
(***************************************************************************)
\* a variant of InsertByScore that places an element before its equals
RECURSIVE InsertByScoreUnstable(_, _)
InsertByScoreUnstable(sorted, r) ==
  IF sorted = <<>> THEN <<r>>
  ELSE IF Head(sorted).score > r.score
       THEN <<Head(sorted)>> \o InsertByScoreUnstable(Tail(sorted), r)
  ELSE <<r>> \o sorted

\* Array.prototype.sort with (a, b) => b.score - a.score: stable, descending
RECURSIVE InsertByScore(_, _)
InsertByScore(sorted, r) ==
  IF sorted = <<>> THEN <<r>>
  ELSE IF Head(sorted).score >= r.score THEN <<Head(sorted)>> \o InsertByScore(Tail(sorted), r)
  ELSE <<r>> \o sorted

RECURSIVE SortByScore(_)
SortByScore(rs) ==
  IF rs = <<>> THEN <<>>
  ELSE InsertByScore(SortByScore(SubSeq(rs, 1, Len(rs) - 1)), rs[Len(rs)])

\* score > 0.1
AboveThreshold(r) == r.score > 1000

\* { ...fact, score }: a copy of the fact, with the fields of the index entry
\* at the time of the call and the score
ScoredFact(i, entry, fact, score) ==
  [idx |-> i, id |-> FactId(i), topic |-> entry.topic, category |-> entry.category,
   views |-> fact.views, feedback |-> fact.feedback, lastView |-> fact.lastView,
   weight |-> fact.weight, score |-> score]

Scored(i, kbv, a, ctx, nowDay, eng) ==
  ScoredFact(i, eng.index.facts[i], kbv[i], Score(i, kbv[i], a, ctx, nowDay, eng))

\* this.kb.map(...).filter(r => r.score > 0.1).sort(...) for an analysed query
RankedFor(kbv, a, ctx, nowDay, eng) ==
  SortByScore(SelectSeq([i \in DOMAIN kbv |-> Scored(i, kbv, a, ctx, nowDay, eng)], AboveThreshold))

RankedIn(eng, kbv, query, ctx, nowDay) == RankedFor(kbv, Analysis(query, ctx, eng), ctx, nowDay, eng)

Ranked(kbv, query, ctx, nowDay) == RankedIn(EngineOf(kbv), kbv, query, ctx, nowDay)

\* the body of ranked.slice(0, 8).forEach(...) on one element of ranked
Viewed(r, nowDay) ==
  LET v == r.views + Scale
  IN [r EXCEPT !.views = v, !.lastView = nowDay,
               !.weight = Min(WEIGHT_CEIL, r.weight + Boost(v, r.feedback))]

\* ranked after the forEach: the elements of ranked are the copies made by
\* { ...fact, score }, so the facts of this.kb are not the objects updated
RankedAfterViews(ranked, nowDay) ==
  [k \in DOMAIN ranked |-> IF k <= TOP_K THEN Viewed(ranked[k], nowDay) ELSE ranked[k]]

\* this.kb after ranked.slice(0, 8).forEach(...)
KbAfterViews(kbv, ranked, nowDay) == kbv

(***************************************************************************)
(* The token cache of smartTokenize (lines 369-390)                        *)
(***************************************************************************)
MAX_CACHE_SIZE == 1000

\* tokenCache.has(text)
CacheHas(cache, text) == \E k \in DOMAIN cache : cache[k].key = text

\* tokenCache.get(text)
CacheGet(cache, text) == cache[CHOOSE k \in DOMAIN cache : cache[k].key = text].val

\* a variant of AfterTokenize in which a hit moves the entry to the end
AfterTokenizeRefreshing(cache, text) ==
  IF CacheHas(cache, text)
  THEN LET hit(e) == e.key = text
           others(e) == e.key # text
       IN SelectSeq(cache, others) \o SelectSeq(cache, hit)
  ELSE LET c == Append(cache, [key |-> text, val |-> smartTokenize(text)])
       IN IF Len(c) > MAX_CACHE_SIZE THEN Tail(c) ELSE c

\* tokenCache after smartTokenize(text): a hit returns before the cache is
\* touched; a miss appends the entry and, above MAX_CACHE_SIZE, deletes the
\* first key of the Map
AfterTokenize(cache, text) ==
  IF CacheHas(cache, text) THEN cache
  ELSE LET c == Append(cache, [key |-> text, val |-> smartTokenize(text)])
       IN IF Len(c) > MAX_CACHE_SIZE THEN Tail(c) ELSE c

\* what smartTokenize(text) returns with the cache as it is
TokenizeWith(cache, text) ==
  IF CacheHas(cache, text) THEN CacheGet(cache, text) ELSE smartTokenize(text)

\* a call of smartTokenize(text)
SmartTokenizeCall(text) ==
  /\ ops < MaxOps
  /\ ops' = ops + 1
  /\ tokenCache' = AfterTokenize(tokenCache, text)
  /\ lastOp' = [op |-> "smartTokenize", text |-> text, result |-> TokenizeWith(tokenCache, text)]
  /\ UNCHANGED <<kb, context, queryCache, queryPatterns, bookmarks, store, pending, shown,
                 renders, now, accepted, ctxOwner>>

\* tokenCache after smartTokenize was called on each of texts in turn
RECURSIVE AfterTokenizeAll(_, _)
AfterTokenizeAll(cache, texts) ==
  IF texts = <<>> \/ cache \notin Seq([key : STRING, val : Seq(STRING)]) THEN cache
  ELSE IF Len(texts) = 1 THEN AfterTokenize(cache, texts[1])
  ELSE LET half == Len(texts) \div 2
       IN AfterTokenizeAll(AfterTokenizeAll(cache, SubSeq(texts, 1, half)),
                           SubSeq(texts, half + 1, Len(texts)))

\* the texts a call of processQuery that misses the query cache passes to
\* smartTokenize, in order: the query (735), the last three history queries,
\* newest first, for a short query (746-749), every history query (766-767)
\* and, when a fact was ranked, the query again in generateChips (989)
TokenizedBy(query, words, history, found) ==
  <<query>>
    \o (IF Len(words) < 4 /\ Len(history) > 0
        THEN LET last == SubSeq(history, Max(1, Len(history) - 2), Len(history))
             IN [k \in DOMAIN last |-> last[Len(last) + 1 - k].query]
        ELSE <<>>)
    \o [k \in DOMAIN history |-> history[k].query]
    \o (IF found THEN <<query>> ELSE <<>>)

(***************************************************************************)
(* generateChips (lines 979-1028)                                          *)
(***************************************************************************)
\* Object.keys(CONCEPTS)
CONCEPT_KEYS == <<"future-tech", "green-tech", "data-security", "human-augmentation">>

\* arr.slice(0, k)
FirstK(xs, k) == SubSeq(xs, 1, Min(k, Len(xs)))

\* uniq(arr): [...new Set(arr)] keeps the first occurrence of each element
RECURSIVE uniq(_)
uniq(arr) ==
  IF arr = <<>> THEN <<>>
  ELSE LET init == uniq(SubSeq(arr, 1, Len(arr) - 1))
           last == arr[Len(arr)]
       IN IF last \in Range(init) THEN init ELSE Append(init, last)

\* shuffle(arr) sorts a copy with a random comparator; `seed` stands for the
\* values Math.random returned: the copy as it was, reversed, or rotated
shuffle(arr, seed) ==
  IF seed = 0 \/ arr = <<>> THEN arr
  ELSE IF seed = 1 THEN [k \in DOMAIN arr |-> arr[Len(arr) + 1 - k]]
  ELSE Tail(arr) \o <<arr[1]>>

\* f.text.split(" ").slice(0, 5).join(" ") + "..."
Snippet(text) == JoinSp(FirstK(SplitOn(text, {" "}, 1, "", <<>>), 5)) \o "..."

\* a variant of FitsChip that lets every chip pass
FitsChipAlways(c) == TRUE

\* c.length <= 50
FitsChip(c) == Len(c) <= 50

\* .filter(c => c.length <= 50)
Fitting(chips) == SelectSeq(chips, FitsChip)

\* c.replace("-", " "): the first hyphen becomes a space
ReplaceHyphen(c) ==
  IF Includes(c, "-")
  THEN LET i == CHOOSE i \in 1..Len(c) :
                  SubSeq(c, i, i) = "-" /\ \A j \in 1..(i - 1) : SubSeq(c, j, j) # "-"
       IN SubSeq(c, 1, i - 1) \o " " \o SubSeq(c, i + 1, Len(c))
  ELSE c

\* ranked.slice(3, 10).map(snippet or null).filter(Boolean).slice(0, 2)
SemanticChips(facts) ==
  FirstK(Fitting([k \in 1..(Min(10, Len(facts)) - 3) |-> Snippet(facts[k + 3].text)]), 2)

\* intentBias > 0.5, with intentBias = queryPatterns[intent] / (1 + sum of the counts)
IntentBiased(patterns, intent) ==
  2 * patterns[intent] > 1 + SumSeq([k \in DOMAIN Intents |-> patterns[Intents[k]]])

\* smartTokenize(query).slice(0, intentBias > 0.5 ? 4 : 2).map(...).filter(Boolean)
DeepDiveChips(tokens, patterns, intent) ==
  LET ts == FirstK(tokens, IF IntentBiased(patterns, intent) THEN 4 ELSE 2)
  IN Fitting([k \in DOMAIN ts |-> "How does " \o ts[k] \o " work?"])

\* lines 995-997
ComparisonChip(topic, lastTopic) ==
  IF lastTopic # Null /\ lastTopic # "" /\ lastTopic # topic
  THEN Fitting(<<"Compare " \o topic \o " to " \o lastTopic>>)
  ELSE <<>>

\* lines 999-1003
ConceptChips(keywords) ==
  LET hit(k) == \E j \in DOMAIN keywords : keywords[j] \in Range(CONCEPTS[k])
      keys == SelectSeq([k \in DOMAIN CONCEPT_KEYS |-> k], hit)
  IN FirstK(Fitting([k \in DOMAIN keys |-> "Explore " \o ReplaceHyphen(CONCEPT_KEYS[keys[k]])]), 2)

\* lines 1009-1010
RelatedTopicChips(relatedTopics) ==
  FirstK(Fitting([k \in DOMAIN relatedTopics |-> "Explore " \o relatedTopics[k]]), 2)

\* the first entry of queryPatterns, the intent's own left out, after a
\* stable sort by descending count (lines 1012-1014)
TrendingTopic(patterns, intent) ==
  LET others == SelectSeq(Intents, LAMBDA k : k # intent)
      i == CHOOSE i \in DOMAIN others :
             /\ \A j \in DOMAIN others : patterns[others[j]] <= patterns[others[i]]
             /\ \A j \in 1..(i - 1) : patterns[others[j]] < patterns[others[i]]
  IN others[i]

\* the candidates before deduplication, in the order of line 1017
CandidateChips(tokens, facts, topic, category, intent, patterns, lastTopic, categories) ==
  SemanticChips(facts)
    \o DeepDiveChips(tokens, patterns, intent)
    \o Fitting(<<"Future of " \o topic>>)
    \o ComparisonChip(topic, lastTopic)
    \o ConceptChips(facts[1].keywords)
    \o (IF category \in categories THEN Fitting(<<"More in " \o category>>) ELSE <<>>)
    \o RelatedTopicChips(facts[1].relatedTopics)
    \o <<"Try a " \o TrendingTopic(patterns, intent) \o " query">>

\* the while loop of lines 1020-1025, from index idx of ranked (0-based)
RECURSIVE WithExtras(_, _, _)
WithExtras(chips, facts, idx) ==
  IF Len(chips) < 8 /\ idx < Len(facts)
  THEN LET extra == Snippet(facts[idx + 1].text)
       IN WithExtras(IF FitsChip(extra) /\ extra \notin Range(chips)
                     THEN Append(chips, extra) ELSE chips,
                     facts, idx + 1)
  ELSE chips

\* lines 1018-1027 on the shuffled, deduplicated candidates
ChipsFrom(allChips, facts) == FirstK(WithExtras(allChips, facts, Len(allChips) + 3), 8)

\* generateChips(query, ranked, topic, category, intent): tokens is
\* smartTokenize(query), facts the text, keywords and related topics of ranked
generateChips(tokens, facts, topic, category, intent, patterns, lastTopic, categories, seed) ==
  ChipsFrom(shuffle(uniq(CandidateChips(tokens, facts, topic, category, intent, patterns,
                                        lastTopic, categories)), seed), facts)

(***************************************************************************)
(* The composers (responseTemplates, lines 454-485; lines 881-977)         *)
(***************************************************************************)
\* str.split(/\s+/): the pieces between runs of white space; a string that
\* starts or ends with white space has an empty first or last piece
RECURSIVE SplitWs(_)
SplitWs(str) ==
  LET at == {j \in 1..Len(str) : SubSeq(str, j, j) \in WsSet}
  IN IF at = {} THEN <<str>>
     ELSE LET mid == CHOOSE j \in at :
                       \A k \in at : (IF 2 * j > Len(str) THEN 2 * j - Len(str) ELSE Len(str) - 2 * j)
                                       <= (IF 2 * k > Len(str) THEN 2 * k - Len(str) ELSE Len(str) - 2 * k)
              lo == CHOOSE j \in 1..mid : (j..mid) \subseteq at /\ (j = 1 \/ (j - 1) \notin at)
              hi == CHOOSE j \in mid..Len(str) :
                      (mid..j) \subseteq at /\ (j = Len(str) \/ (j + 1) \notin at)
          IN SplitWs(SubSeq(str, 1, lo - 1)) \o SplitWs(SubSeq(str, hi + 1, Len(str)))

\* the starts of the matches of \btoken\b in text, compared without case: the
\* token is made of word characters, so a match is a whole run of them
MatchesOf(lower, token) ==
  {i \in 1..(Len(lower) - Len(token) + 1) :
     /\ SubSeq(lower, i, i + Len(token) - 1) = token
     /\ (i = 1 \/ SubSeq(lower, i - 1, i - 1) \notin WordCharSet)
     /\ (i + Len(token) > Len(lower)
          \/ SubSeq(lower, i + Len(token), i + Len(token)) \notin WordCharSet)}

\* text from position i on, with the matches that start in `at` wrapped
RECURSIVE MarkFrom(_, _, _, _)
MarkFrom(text, n, at, i) ==
  LET after == {j \in at : j >= i}
  IN IF after = {} THEN SubSeq(text, i, Len(text))
     ELSE LET m == CHOOSE j \in after : \A k \in after : j <= k
          IN SubSeq(text, i, m - 1) \o "<mark>" \o SubSeq(text, m, m + n - 1) \o "</mark>"
               \o MarkFrom(text, n, at, m + n)

\* result.replace(new RegExp(`\\b${token}\\b`, "gi"), `<mark>$&</mark>`)
MarkToken(text, token) == MarkFrom(text, Len(token), MatchesOf(ToLowerCase(text), token), 1)

\* highlightTokens(text, queryTokens)
RECURSIVE highlightTokens(_, _)
highlightTokens(text, queryTokens) ==
  IF queryTokens = <<>> THEN text
  ELSE highlightTokens(MarkToken(text, Head(queryTokens)), Tail(queryTokens))

\* `<sup>[${idx}]</sup>`
Marker(idx) == "<sup>[" \o Numeral(idx) \o "]</sup>"

\* a variant of UnderBudget that lets every support in
UnderBudgetAlways(wordCount) == TRUE

\* wordCount < 100
UnderBudget(wordCount) == wordCount < 100

\* Math.max(1, 50 - wordCount / 2) as slice uses it (the fraction dropped)
SnippetWords(wordCount) == Max(1, 50 - (wordCount + 1) \div 2)

\* the body of supports.forEach((s, i) => ...) for support i (from 0): st is
\* main, wordCount and cites so far, with the supports appended; `first` is
\* the first citation index of a support, id the id of the first main fact
Supported(st, s, i, first, id, queryTokens, lowered) ==
  IF UnderBudget(st.wordCount)
  THEN LET snippet == JoinWith(FirstK(SplitWs(s.text), SnippetWords(st.wordCount)), " ")
           marked == highlightTokens(snippet, queryTokens)
       IN [main |-> st.main \o " " \o (IF lowered THEN ToLowerCase(marked) ELSE marked)
                      \o Marker(i + first),
           wordCount |-> st.wordCount + Len(SplitWs(snippet)),
           cites |-> ((i + first) :> (id + i + 1)) @@ st.cites,
           appended |-> Append(st.appended, [key |-> i + first, from |-> s.id,
                                             before |-> st.wordCount,
                                             words |-> Len(SplitWs(snippet))])]
  ELSE st

\* supports.forEach(...) from support i on
RECURSIVE WithSupports(_, _, _, _, _, _, _)
WithSupports(st, supports, i, first, id, queryTokens, lowered) ==
  IF i >= Len(supports) THEN st
  ELSE WithSupports(Supported(st, supports[i + 1], i, first, id, queryTokens, lowered),
                    supports, i + 1, first, id, queryTokens, lowered)

\* main.split(/\s+/).slice(0, 100).join(" "), "..." added unless it ends with "."
Finished(main) ==
  LET words == JoinWith(FirstK(SplitWs(main), 100), " ")
  IN words \o (IF EndsWith(words, ".") THEN "" ELSE "...")

\* what a composer returns: main and cites, with the facts behind the
\* markers (sources: citation index -> id of the fact whose text precedes the
\* marker; appended: the supports that were appended)
Composed(st, sources) ==
  [main |-> Finished(st.main), cites |-> st.cites, draft |-> st.main,
   sources |-> sources, appended |-> st.appended]

\* main and the word count before the supports
Draft(main, cites) ==
  [main |-> main, wordCount |-> Len(SplitWs(main)), cites |-> cites, appended |-> <<>>]

\* the citation of each main fact: cites[i + 1] = f.id
MainCites(facts) == [k \in DOMAIN facts |-> facts[k].id]

\* composeComparison(facts, supports, queryTokens, entities)
composeComparison(facts, supports, queryTokens) ==
  IF facts = <<>> THEN Composed(Draft("No comparison available.", <<>>), <<>>)
  ELSE LET structure ==
             facts[1].text \o Marker(1) \o " "
               \o (IF Len(facts) = 2
                   THEN "In contrast, " \o ToLowerCase(facts[2].text) \o Marker(2) ELSE "")
       IN Composed(WithSupports(Draft(highlightTokens(structure, queryTokens), MainCites(facts)),
                                supports, 0, 3, facts[1].id, queryTokens, FALSE),
                   MainCites(facts))

\* composeList(facts, supports, queryTokens)
composeList(facts, supports, queryTokens) ==
  LET item(k) == Numeral(k) \o ". " \o highlightTokens(facts[k].text, queryTokens) \o Marker(k)
  IN Composed(WithSupports(Draft(JoinWith([k \in DOMAIN facts |-> item(k)], " "),
                                 MainCites(facts)),
                           supports, 0, Len(facts) + 1, facts[1].id, queryTokens, FALSE),
              MainCites(facts))

\* str.charAt(0).toUpperCase() + str.slice(1)
Capitalized(str) == IF str = "" THEN "" ELSE UpperChar(SubSeq(str, 1, 1)) \o SubSeq(str, 2, Len(str))

\* composeDefinition(mainFact, supports, queryTokens, explainTerm)
composeDefinition(mainFact, supports, queryTokens, explainTerm) ==
  LET textual == Includes(ToLowerCase(mainFact.text), explainTerm)
                   \/ explainTerm \in Range(mainFact.keywords)
      main == IF textual THEN highlightTokens(mainFact.text, queryTokens)
              ELSE Capitalized(explainTerm) \o " is a "
                     \o JoinWith(RelatedOf(explainTerm), " or ") \o " technology."
  IN Composed(WithSupports(Draft(main \o Marker(1), <<mainFact.id>>),
                           supports, 0, 2, mainFact.id, queryTokens, FALSE),
              <<mainFact.id>>)

\* responseTemplates.general.structure(facts, highlight): the connector
\* depends on cos(embedding of fact i - 1, embedding of fact i) > 0.7
RECURSIVE GeneralStructure(_, _, _)
GeneralStructure(facts, queryTokens, k) ==
  IF k = 1 THEN highlightTokens(facts[1].text, queryTokens) \o Marker(1)
  ELSE GeneralStructure(facts, queryTokens, k - 1) \o " "
         \o (IF facts[k].id \in facts[k - 1].similar THEN "Similarly," ELSE "In addition,")
         \o " " \o ToLowerCase(highlightTokens(facts[k].text, queryTokens)) \o Marker(k)

\* composeGeneral(facts, supports, queryTokens)
composeGeneral(facts, supports, queryTokens) ==
  Composed(WithSupports(Draft(GeneralStructure(facts, queryTokens, Len(facts)), MainCites(facts)),
                        supports, 0, Len(facts) + 1, facts[1].id, queryTokens, TRUE),
           MainCites(facts))

\* whether every character of str from i to j is in set
RunIn(str, i, j, set) == \A k \in i..j : SubSeq(str, k, k) \in set

\* the greatest element of a non-empty set of numbers
Greatest(S) == CHOOSE x \in S : \A y \in S : y <= x

\* [\w\s-]
EntityChars == WordCharSet \cup WsSet \cup {"-"}

\* where the second group of the pattern can start when "to" starts at t: as
\* far right as the white space after "to" allows
EntityStarts(q, t) ==
  {u \in (t + 3)..Len(q) : RunIn(q, t + 2, u - 1, WsSet) /\ SubSeq(q, u, u) \in EntityChars}

\* where "to" can start when the first group ends at b
ToStarts(q, lq, b) ==
  {t \in (b + 2)..(Len(q) - 1) :
     RunIn(q, b + 1, t - 1, WsSet) /\ SubSeq(lq, t, t + 1) = "to" /\ EntityStarts(q, t) # {}}

\* where the first group can end when it starts at a
EntityEnds(q, lq, a) ==
  {b \in a..Len(q) : RunIn(q, a, b, EntityChars) /\ ToStarts(q, lq, b) # {}}

\* where the first group can start when "compare" starts at c
FirstStarts(q, lq, c) ==
  {a \in (c + 8)..Len(q) : RunIn(q, c + 7, a - 1, WsSet) /\ EntityEnds(q, lq, a) # {}}

\* query.match(/compare\s+([\w\s-]+)\s+to\s+([\w\s-]+)/i)?.slice(1, 3): the
\* leftmost match, every quantifier taking as much as the rest allows;
\* <<>> when there is no match
ComparisonEntities(q) ==
  LET lq == ToLowerCase(q)
      cs == {c \in 1..(Len(q) - 6) : SubSeq(lq, c, c + 6) = "compare" /\ FirstStarts(q, lq, c) # {}}
  IN IF cs = {} THEN <<>>
     ELSE LET c == CHOOSE x \in cs : \A y \in cs : x <= y
              a == Greatest(FirstStarts(q, lq, c))
              b == Greatest(EntityEnds(q, lq, a))
              u == Greatest(EntityStarts(q, Greatest(ToStarts(q, lq, b))))
              v == Greatest({j \in u..Len(q) : RunIn(q, u, j, EntityChars)})
          IN <<SubSeq(q, a, b), SubSeq(q, u, v)>>

\* the positions of ranked that satisfy Test, in order
PositionsWhere(ranked, Test(_)) == SelectSeq([k \in DOMAIN ranked |-> k], Test)

\* the facts of ranked at the given positions
FactsAt(ranked, positions) == [k \in DOMAIN positions |-> ranked[positions[k]]]

\* f.text.toLowerCase().includes(e.toLowerCase()) || f.keywords.some(k => k.includes(e.toLowerCase()))
MentionsEntity(f, e) ==
  \/ Includes(ToLowerCase(f.text), ToLowerCase(e))
  \/ \E k \in DOMAIN f.keywords : Includes(f.keywords[k], ToLowerCase(e))

\* lines 838-844: the first fact that mentions each entity, two at most
ComparisonMain(ranked, entities) ==
  FirstK(FirstK(PositionsWhere(ranked, LAMBDA k : MentionsEntity(ranked[k], entities[1])), 1)
           \o FirstK(PositionsWhere(ranked, LAMBDA k : MentionsEntity(ranked[k], entities[2])), 1),
         2)

\* query.replace(/^(explain|what is|define)\s+/i, "").toLowerCase()
ExplainTerm(query) ==
  LET lq == ToLowerCase(query)
      heads == {w \in {"explain", "what is", "define"} :
                  StartsWith(lq, w) /\ Len(lq) > Len(w) /\ SubSeq(lq, Len(w) + 1, Len(w) + 1) \in WsSet}
  IN IF heads = {} THEN lq
     ELSE LET w == CHOOSE w \in heads : TRUE
          IN SkipWs(Rest(lq, Len(w) + 1))

\* line 853: ranked.find(...) || ranked[0], as a position
DefinitionMain(ranked, explainTerm) ==
  LET found == PositionsWhere(ranked, LAMBDA k :
                 \/ explainTerm \in Range(ranked[k].keywords)
                 \/ Includes(ToLowerCase(ranked[k].text), explainTerm))
  IN IF found = <<>> THEN <<1>> ELSE <<found[1]>>

\* line 854: the facts with another id whose text does not hold the main text
DefinitionSupports(ranked, main) ==
  PositionsWhere(ranked, LAMBDA k :
    /\ ranked[k].id # ranked[main].id
    /\ ~Includes(ToLowerCase(ranked[k].text), ToLowerCase(ranked[main].text)))

\* lines 857-867: the loop over ranked from position k on
RECURSIVE GeneralMain(_, _, _)
GeneralMain(ranked, k, mainFacts) ==
  IF k > Len(ranked) \/ Len(mainFacts) >= 3 THEN mainFacts
  ELSE LET usedTopics == {ranked[mainFacts[j]].topic : j \in DOMAIN mainFacts}
       IN GeneralMain(ranked, k + 1,
                      IF \/ Cardinality(usedTopics) < 2
                         \/ ranked[k].topic \in usedTopics
                         \/ Len(mainFacts) + 1 = Len(ranked)
                      THEN Append(mainFacts, k) ELSE mainFacts)

\* ranked.filter(f => !mainFacts.includes(f)): the positions outside mainFacts
NotMain(ranked, mainFacts) == PositionsWhere(ranked, LAMBDA k : k \notin Range(mainFacts))

\* main and cites when no composer is called (comparison without entities)
NotComposed == [main |-> "", cites |-> <<>>, draft |-> "", sources |-> <<>>, appended |-> <<>>]

\* lines 834-871: the main facts and supports by intent, and the composer's
\* result; words is smartTokenize(query)
Compose(query, intent, ranked, words) ==
  IF intent = "comparison"
  THEN LET entities == ComparisonEntities(query) IN
       IF entities = <<>> THEN NotComposed
       ELSE LET mainFacts == ComparisonMain(ranked, entities)
            IN composeComparison(FactsAt(ranked, mainFacts),
                                 FactsAt(ranked, FirstK(NotMain(ranked, mainFacts), 2)), words)
  ELSE IF intent = "list"
  THEN composeList(FactsAt(ranked, [k \in 1..Min(3, Len(ranked)) |-> k]),
                   FactsAt(ranked, [k \in 1..(Min(5, Len(ranked)) - 3) |-> k + 3]), words)
  ELSE IF intent = "definition"
  THEN LET mainFacts == DefinitionMain(ranked, ExplainTerm(query))
       IN composeDefinition(ranked[mainFacts[1]],
                            FactsAt(ranked, FirstK(DefinitionSupports(ranked, mainFacts[1]), 2)),
                            words, ExplainTerm(query))
  ELSE LET mainFacts == GeneralMain(ranked, 1, <<>>)
       IN composeGeneral(FactsAt(ranked, mainFacts),
                         FactsAt(ranked, FirstK(NotMain(ranked, mainFacts), 2)), words)

(***************************************************************************)
(* processQuery                                                            *)
(***************************************************************************)
\* a variant of NotFoundResponse that does not quote the query
NotFoundResponseWithoutQuery(query, bm) ==
  [topic |-> "", category |-> "General", main |-> "No info found. Try something else!",
   details |-> <<>>, related |-> SubSeq(bm, 1, Min(8, Len(bm))), cites |-> <<>>, score |-> 0]

\* the response of lines 820-822
NotFoundResponse(query, bm) ==
  [topic |-> "", category |-> "General",
   main |-> "No info found for \"" \o query \o "\". Try something else!",
   details |-> <<>>, related |-> SubSeq(bm, 1, Min(8, Len(bm))), cites |-> <<>>, score |-> 0]

\* the response to a query with a non-empty ranked list: topic, category and
\* score of the best result (main, details, related and cites are composed
\* from ranked by the intent's composer)
FoundResponse(query, ranked) ==
  [topic |-> ranked[1].topic, category |-> ranked[1].category, score |-> ranked[1].score,
   top |-> [k \in DOMAIN ranked |-> ranked[k].id]]

\* what a call of processQuery leaves: the response, the cache, the index and
\* the store after the call, and what the call did on the way
Outcome(query, response, cache, kbv, st, path, ranked) ==
  [response |-> response, cache |-> (query :> response) @@ cache, kb |-> kbv, store |-> st,
   path |-> path, ranked |-> ranked, miss |-> TRUE]

\* the rest of processQuery once ranked is computed (lines 819-878)
Respond(query, ranked, kbv, kb2, ctx, cache, bm, patterns, st, nowDay) ==
  IF ranked = <<>>
  THEN Outcome(query, NotFoundResponse(query, bm), cache, kbv, st, "notfound", <<>>)
  ELSE Outcome(query, FoundResponse(query, ranked), cache, kb2,
               savePersistedData(kb2, ctx.history, bm, patterns), "ranked",
               RankedAfterViews(ranked, nowDay))

RespondTo(query, ranked, kbv, ctx, cache, bm, patterns, st, nowDay) ==
  Respond(query, ranked, kbv, KbAfterViews(kbv, ranked, nowDay), ctx, cache, bm, patterns, st,
          nowDay)

\* a variant of processQuery that ranks the facts again for a cached query
processQueryRanksAgain(query, kbv, ctx, cache, bm, patterns, st, nowDay) ==
  RespondTo(query, Ranked(kbv, query, ctx, nowDay), kbv, ctx, cache, bm, patterns, st, nowDay)

\* processQuery(query) in a given state
processQuery(query, kbv, ctx, cache, bm, patterns, st, nowDay) ==
  IF query \in DOMAIN cache
  THEN [response |-> cache[query], cache |-> cache, kb |-> kbv, store |-> st,
        path |-> "cached", ranked |-> <<>>, miss |-> FALSE]
  ELSE RespondTo(query, Ranked(kbv, query, ctx, nowDay), kbv, ctx, cache, bm, patterns, st,
                 nowDay)

\* a variant of PushHistory that drops the newest entry of a full history
PushHistoryDropNewest(history, e) ==
  LET h == Append(history, e) IN IF Len(h) > MAX_HISTORY THEN SubSeq(h, 1, MAX_HISTORY) ELSE h

\* history.push(e); if (history.length > 10) history.shift()
PushHistory(history, e) ==
  LET h == Append(history, e) IN IF Len(h) > MAX_HISTORY THEN Tail(h) ELSE h

\* the v3 engine: history.push(e); if (history.length > maxHistory) history.shift()
V3_MAX_HISTORY == 20
V3PushHistory(history, e) ==
  LET h == Append(history, e) IN IF Len(h) > V3_MAX_HISTORY THEN Tail(h) ELSE h

MAX_BOOKMARKS == 15

\* a variant of PushBookmark that drops the newest entry of a full list
PushBookmarkDropNewest(bm, text) ==
  LET b == Append(bm, text) IN IF Len(b) > MAX_BOOKMARKS THEN SubSeq(b, 1, MAX_BOOKMARKS) ELSE b

\* bookmarks.push(text); if (bookmarks.length > 15) bookmarks.shift()
PushBookmark(bm, text) ==
  LET b == Append(bm, text) IN IF Len(b) > MAX_BOOKMARKS THEN Tail(b) ELSE b

ErrorResponse ==
  [category |-> "Error",
   main |-> "Failed to fetch API data. Is the backend running at http://localhost:5000?",
   details |-> <<>>, related |-> <<>>, cites |-> <<>>]

(***************************************************************************)
(* Initial state: the engine after its constructor                         *)
(***************************************************************************)
InitialPatterns == [n \in Range(Intents) |-> 0]

\* what initUI renders (this.bookmarks is empty in a new session)
InitialResponse ==
  [category |-> "General",
   main |-> "Ask me anything! Try 'weather', 'food near me', 'search 123 Main St', or 'what is AI'.",
   details |-> <<>>, related |-> <<>>, cites |-> <<>>]

\* renderResults(response) for accepted query seq
Render(seq, kind, response) ==
  /\ shown' = [seq |-> seq, kind |-> kind, response |-> response]
  /\ renders' = [s \in DOMAIN renders \cup {seq} |->
                   IF s = seq THEN Append(IF s \in DOMAIN renders THEN renders[s] ELSE <<>>, kind)
                   ELSE renders[s]]

\* tokenCache once the constructor has tokenized the text of every fact
InitialTokenCache == AfterTokenizeAll(<<>>, [i \in Docs |-> FactText(KB[i])])

\* every variable but the token cache after construction
Constructed ==
  /\ kb = [i \in Docs |-> [views |-> 0, feedback |-> 0, lastView |-> 0, weight |-> Priority(i)]]
  /\ context = [currentTopic |-> Null, lastTopic |-> Null, currentCategory |-> Null,
                history |-> <<>>, confidence |-> 0]
  /\ queryCache = << >>
  /\ queryPatterns = InitialPatterns
  /\ bookmarks = <<>>
  /\ store = [views |-> Absent, context |-> Absent, bookmarks |-> Absent, patterns |-> Absent]
  /\ pending = {}
  /\ shown = [seq |-> 0, kind |-> "initial", response |-> InitialResponse]
  /\ renders = << >>
  /\ now = 0
  /\ accepted = 0
  /\ ctxOwner = 0
  /\ ops = 0
  /\ lastOp = [op |-> "constructor"]

Init == Constructed /\ tokenCache = InitialTokenCache

\* what the synchronous request for kbSrc can end in: the facts of kb.json,
\* a file whose facts array is empty, or an exception of open, send or
\* JSON.parse
LoadOutcomes == {"facts", "noFacts", "failed"}

\* this.kb after the try / catch (lines 506-514): the catch logs the error
\* and sets this.kb = []
LoadedFacts(outcome) == IF outcome = "facts" THEN KB ELSE <<>>

\* the constructor after the request ended in `outcome`: the statements
\* after the catch run in every case (lines 516-562)
ConstructedFrom(outcome) ==
  /\ kb = [i \in DOMAIN LoadedFacts(outcome) |->
             [views |-> 0, feedback |-> 0, lastView |-> 0, weight |-> Priority(i)]]
  /\ tokenCache = AfterTokenizeAll(<<>>, [i \in DOMAIN LoadedFacts(outcome) |->
                                           FactText(LoadedFacts(outcome)[i])])
  /\ context = [currentTopic |-> Null, lastTopic |-> Null, currentCategory |-> Null,
                history |-> <<>>, confidence |-> 0]
  /\ queryCache = << >>
  /\ queryPatterns = InitialPatterns
  /\ bookmarks = <<>>
  /\ store = [views |-> Absent, context |-> Absent, bookmarks |-> Absent, patterns |-> Absent]
  /\ pending = {}
  /\ shown = [seq |-> 0, kind |-> "initial", response |-> InitialResponse]
  /\ renders = << >>
  /\ now = 0
  /\ accepted = 0
  /\ ctxOwner = 0
  /\ ops = 0
  /\ lastOp = [op |-> "constructor", load |-> outcome]

Loaded == \E outcome \in LoadOutcomes : ConstructedFrom(outcome)

(***************************************************************************)
(* Operations                                                              *)
(***************************************************************************)
\* handleSearch for a query of an external intent (lines 632-660, 669-673):
\* the request is dispatched, the history entry is pushed and saved
Dispatch(query, seq, patterns, history) ==
  /\ Cardinality(pending) < MaxPending
  /\ pending' = pending \cup {[seq |-> seq, query |-> query]}
  /\ context' = [context EXCEPT !.history = history]
  /\ store' = savePersistedData(kb, history, bookmarks, patterns)
  /\ lastOp' = [op |-> "handleSearch", query |-> query, path |-> "external", seq |-> seq]
  /\ UNCHANGED <<kb, queryCache, shown, renders, tokenCache, ctxOwner>>

\* the text, keywords and relations of the ranked facts (no fact of KB
\* carries relations)
ChipFactsOf(ranked) ==
  [k \in DOMAIN ranked |-> [text |-> KB[ranked[k].idx].text,
                            keywords |-> KB[ranked[k].idx].keywords, relatedTopics |-> <<>>]]

\* what generateChips returned in the call of processQuery that left r, when
\* shuffle came out as seed; <<>> when the call did not reach line 874
ChipsOf(query, r, patterns, seed) ==
  IF r.path = "ranked"
  THEN generateChips(Engine.queries[query].words, ChipFactsOf(r.ranked), r.response.topic,
                     r.response.category, IntentOf(query), patterns, context.lastTopic,
                     Engine.index.categoryIndex, seed)
  ELSE <<>>

\* tokenCache after the call of processQuery(query) that left r
TokenCacheAfter(query, r) ==
  IF r.miss
  THEN AfterTokenizeAll(tokenCache, TokenizedBy(query, Engine.queries[query].words,
                                               context.history, r.path = "ranked"))
  ELSE tokenCache

\* handleSearch for a corpus query whose processQuery call left r (lines 661-673)
Answer(query, seq, patterns, r, history) ==
  /\ kb' = r.kb
  /\ queryCache' = r.cache
  /\ context' = [context EXCEPT
        !.currentTopic = r.response.topic,
        !.currentCategory = r.response.category,
        !.confidence = IF r.response.score # 0 THEN 6000 ELSE 3000,
        !.history = history]
  /\ ctxOwner' = seq
  /\ Render(seq, "corpus", r.response)
  /\ store' = savePersistedData(r.kb, history, bookmarks, patterns)
  /\ \E seed \in ShuffleSeeds :
       lastOp' = [op |-> "handleSearch", query |-> query, path |-> r.path, seq |-> seq,
                  ranked |-> r.ranked, response |-> r.response,
                  chips |-> ChipsOf(query, r, patterns, seed)]
  /\ tokenCache' = TokenCacheAfter(query, r)
  /\ UNCHANGED pending

\* context.history.push({ query, topic: context.currentTopic, topFactId: null })
\* read after the synchronous part of the branch has run
Entry(query, topic) == [query |-> query, topic |-> topic, topFactId |-> Null]

AnswerWith(query, seq, patterns, r) ==
  Answer(query, seq, patterns, r, PushHistory(context.history, Entry(query, r.response.topic)))

\* a variant of ExternalIntents that keeps address queries on the corpus path
ExternalIntentsWithoutAddress == {"weather", "food"}

\* ["weather", "food", "address"]: the intents sent to the backend
ExternalIntents == {"weather", "food", "address"}

\* handleSearch past the empty-query guard
Accept(query, intent, seq, patterns) ==
  /\ accepted' = seq
  /\ queryPatterns' = patterns
  /\ IF intent \in ExternalIntents
     THEN Dispatch(query, seq, patterns,
                   PushHistory(context.history, Entry(query, context.currentTopic)))
     ELSE AnswerWith(query, seq, patterns,
                     processQuery(query, kb, context, queryCache, bookmarks, patterns, store, now))
  /\ UNCHANGED <<bookmarks, now>>

AcceptAs(query, intent) ==
  Accept(query, intent, accepted + 1, [queryPatterns EXCEPT ![intent] = @ + 1])

Search(query) ==
  IF query = ""
  THEN /\ lastOp' = [op |-> "handleSearch", query |-> query, path |-> "empty"]
       /\ UNCHANGED <<kb, context, queryCache, queryPatterns, bookmarks, store, pending,
                      shown, renders, now, tokenCache, accepted, ctxOwner>>
  ELSE AcceptAs(query, IntentOf(query))

\* handleSearch() with `input` in the search box
HandleSearch(input) ==
  /\ ops < MaxOps
  /\ ops' = ops + 1
  /\ Search(Trim(input))

\* what a direct call of processQuery leaves behind
Leave(query, r) ==
  /\ kb' = r.kb
  /\ queryCache' = r.cache
  /\ store' = r.store
  /\ tokenCache' = TokenCacheAfter(query, r)
  /\ \E seed \in ShuffleSeeds :
       lastOp' = [op |-> "processQuery", query |-> query, path |-> r.path, ranked |-> r.ranked,
                  response |-> r.response, chips |-> ChipsOf(query, r, queryPatterns, seed)]

\* processQuery(query) called by itself
ProcessQueryCall(query) ==
  /\ ops < MaxOps
  /\ ops' = ops + 1
  /\ Leave(query, processQuery(query, kb, context, queryCache, bookmarks, queryPatterns, store, now))
  /\ UNCHANGED <<context, queryPatterns, bookmarks, pending, shown, renders, now, accepted,
                 ctxOwner>>

\* the second .then of the fetch chain: the service answered with `data`
FetchOk(p, data) ==
  /\ p \in pending
  /\ pending' = pending \ {p}
  /\ context' = [context EXCEPT !.currentTopic = data.topic, !.currentCategory = data.category,
                                !.confidence = 9000]
  /\ ctxOwner' = p.seq
  /\ Render(p.seq, "service", data)
  /\ lastOp' = [op |-> "fetchOk", seq |-> p.seq]
  /\ UNCHANGED <<kb, queryCache, queryPatterns, bookmarks, store, now, tokenCache, accepted, ops>>

\* a variant of FetchFailed that drops the request without rendering
FetchFailedSilently(p) ==
  /\ p \in pending
  /\ pending' = pending \ {p}
  /\ lastOp' = [op |-> "fetchFailed", seq |-> p.seq]
  /\ UNCHANGED <<kb, context, queryCache, queryPatterns, bookmarks, store, shown, renders, now, tokenCache,
                 accepted, ctxOwner, ops>>

\* the .catch of the fetch chain: the request failed, the status was not OK
\* or the body was not JSON
FetchFailed(p) ==
  /\ p \in pending
  /\ pending' = pending \ {p}
  /\ Render(p.seq, "error", ErrorResponse)
  /\ lastOp' = [op |-> "fetchFailed", seq |-> p.seq]
  /\ UNCHANGED <<kb, context, queryCache, queryPatterns, bookmarks, store, now, tokenCache, accepted,
                 ctxOwner, ops>>

\* a variant of applyFeedback that saves whether or not the id is a fact's
ApplyFeedbackSavingAlways(factId, value) ==
  /\ ops < MaxOps
  /\ ops' = ops + 1
  /\ lastOp' = [op |-> "applyFeedback", id |-> factId, value |-> value]
  /\ IF \E i \in Docs : FactId(i) = factId
     THEN LET i == CHOOSE j \in Docs : FactId(j) = factId
              kb2 == [kb EXCEPT ![i].feedback = @ + value,
                                ![i].weight = Min(WEIGHT_CEIL, Max(WEIGHT_FLOOR, @ + 200 * value))]
          IN /\ kb' = kb2
             /\ store' = savePersistedData(kb2, context.history, bookmarks, queryPatterns)
     ELSE /\ kb' = kb
          /\ store' = savePersistedData(kb, context.history, bookmarks, queryPatterns)
  /\ UNCHANGED <<context, queryCache, queryPatterns, bookmarks, pending, shown, renders, now, tokenCache,
                 accepted, ctxOwner>>

\* applyFeedback(factId, value)
ApplyFeedback(factId, value) ==
  /\ ops < MaxOps
  /\ ops' = ops + 1
  /\ lastOp' = [op |-> "applyFeedback", id |-> factId, value |-> value]
  /\ IF \E i \in Docs : FactId(i) = factId
     THEN LET i == CHOOSE j \in Docs : FactId(j) = factId /\ \A h \in 1..(j - 1) : FactId(h) # factId
              kb2 == [kb EXCEPT ![i].feedback = @ + value,
                                ![i].weight = Min(WEIGHT_CEIL, Max(WEIGHT_FLOOR, @ + 200 * value))]
          IN /\ kb' = kb2
             /\ store' = savePersistedData(kb2, context.history, bookmarks, queryPatterns)
     ELSE UNCHANGED <<kb, store>>
  /\ UNCHANGED <<context, queryCache, queryPatterns, bookmarks, pending, shown, renders, now, tokenCache,
                 accepted, ctxOwner>>

\* the body of saveQuery and bookmarkFact once the text is known
Bookmark(text) ==
  IF text \in Range(bookmarks)
  THEN UNCHANGED <<bookmarks, store>>
  ELSE /\ bookmarks' = PushBookmark(bookmarks, text)
       /\ store' = savePersistedData(kb, context.history, PushBookmark(bookmarks, text),
                                     queryPatterns)

\* saveQuery(query)
SaveQuery(query) ==
  /\ ops < MaxOps
  /\ ops' = ops + 1
  /\ lastOp' = [op |-> "saveQuery", text |-> query]
  /\ Bookmark(query)
  /\ UNCHANGED <<kb, context, queryCache, queryPatterns, pending, shown, renders, now, tokenCache,
                 accepted, ctxOwner>>

\* bookmarkFact(factId)
BookmarkFact(factId) ==
  /\ ops < MaxOps
  /\ ops' = ops + 1
  /\ lastOp' = [op |-> "bookmarkFact", id |-> factId]
  /\ IF \E i \in Docs : FactId(i) = factId
     THEN Bookmark(KB[CHOOSE i \in Docs : FactId(i) = factId].text)
     ELSE UNCHANGED <<bookmarks, store>>
  /\ UNCHANGED <<kb, context, queryCache, queryPatterns, pending, shown, renders, now, tokenCache,
                 accepted, ctxOwner>>

\* loadPersistedData()
LoadPersistedData ==
  /\ ops < MaxOps
  /\ ops' = ops + 1
  /\ lastOp' = [op |-> "loadPersistedData"]
  /\ kb' = [i \in Docs |-> LoadedFact(i, kb[i], StoredOr(store, "views", << >>), now)]
  /\ context' = [context EXCEPT !.history = StoredOr(store, "context", <<>>)]
  /\ bookmarks' = StoredOr(store, "bookmarks", <<>>)
  /\ queryPatterns' = StoredOr(store, "patterns", queryPatterns)
  /\ UNCHANGED <<queryCache, store, pending, shown, renders, now, tokenCache, accepted, ctxOwner>>

\* time passes
Tick ==
  /\ ops < MaxOps
  /\ ops' = ops + 1
  /\ now' = now + TickDays
  /\ lastOp' = [op |-> "tick"]
  /\ UNCHANGED <<kb, context, queryCache, queryPatterns, bookmarks, store, pending, shown,
                 renders, tokenCache, accepted, ctxOwner>>

Next ==
  \/ \E input \in SearchInputs : HandleSearch(input)
  \/ \E q \in DirectQueries : ProcessQueryCall(q)
  \/ \E p \in pending, data \in ServiceData : FetchOk(p, data)
  \/ \E p \in pending : FetchFailed(p)
  \/ \E id \in FeedbackIds, value \in {1, -1} : ApplyFeedback(id, value)
  \/ LoadPersistedData
  \/ Tick

Spec == Init /\ [][Next]_vars

\* what localStorage holds under the four keys of a session id generated
\* now, Date.now().toString(36) + Math.random().toString(36).slice(2)
\* (line 504): no instance has written under them
FreshKeys == [views |-> Absent, context |-> Absent, bookmarks |-> Absent, patterns |-> Absent]

\* the page is loaded again and new NovaAI() runs: the constructor draws a
\* new session id, builds the index and calls loadPersistedData() with the
\* keys of that id (lines 495-562); what the instance before it saved stays
\* in localStorage under the keys of the old id
NewSession ==
  /\ ops < MaxOps
  /\ ops' = ops + 1
  /\ store' = FreshKeys
  /\ kb' = [i \in Docs |-> LoadedFact(i, [views |-> 0, feedback |-> 0, lastView |-> now,
                                          weight |-> Priority(i)],
                                      StoredOr(FreshKeys, "views", << >>), now)]
  /\ context' = [currentTopic |-> Null, lastTopic |-> Null, currentCategory |-> Null,
                 history |-> StoredOr(FreshKeys, "context", <<>>), confidence |-> 0]
  /\ bookmarks' = StoredOr(FreshKeys, "bookmarks", <<>>)
  /\ queryPatterns' = StoredOr(FreshKeys, "patterns", InitialPatterns)
  /\ queryCache' = << >>
  /\ pending' = {}
  /\ shown' = [seq |-> 0, kind |-> "initial", response |-> InitialResponse]
  /\ renders' = << >>
  /\ accepted' = 0
  /\ ctxOwner' = 0
  /\ tokenCache' = InitialTokenCache
  /\ lastOp' = [op |-> "constructor", saved |-> store, viewed |-> kb]
  /\ UNCHANGED now

SessionNext == Next \/ NewSession

\* sessions that follow one another in the same browser
SessionSpec == Init /\ [][SessionNext]_vars

(***************************************************************************)
(* A session in progress: the state after PriorSearches searches for       *)
(* "zzz nonsense" followed by PriorBookmarks calls of saveQuery with the   *)
(* texts b1, b2, ...                                                       *)
(***************************************************************************)
PriorQuery == "zzz nonsense"
PriorResponse == NotFoundResponse(PriorQuery, <<>>)
PriorHistory == [k \in 1..Min(PriorSearches, MAX_HISTORY) |-> Entry(PriorQuery, "")]
PriorPatterns == [InitialPatterns EXCEPT !["general"] = PriorSearches]
PriorSaved ==
  [k \in 1..Min(PriorBookmarks, MAX_BOOKMARKS) |->
     "b" \o Numeral(k + Max(0, PriorBookmarks - MAX_BOOKMARKS))]

SessionInProgress ==
  /\ kb = [i \in Docs |-> [views |-> 0, feedback |-> 0, lastView |-> 0, weight |-> Priority(i)]]
  /\ context = [currentTopic |-> "", lastTopic |-> Null, currentCategory |-> "General",
                history |-> PriorHistory, confidence |-> 3000]
  /\ queryCache = (PriorQuery :> PriorResponse)
  /\ queryPatterns = PriorPatterns
  /\ bookmarks = PriorSaved
  /\ store = savePersistedData(kb, PriorHistory, PriorSaved, PriorPatterns)
  /\ pending = {}
  /\ shown = [seq |-> PriorSearches, kind |-> "corpus", response |-> PriorResponse]
  /\ renders = [s \in 1..PriorSearches |-> <<"corpus">>]
  /\ now = 0
  /\ tokenCache = AfterTokenize(InitialTokenCache, PriorQuery)
  /\ accepted = PriorSearches
  /\ ctxOwner = PriorSearches
  /\ ops = 0
  /\ lastOp = [op |-> "saveQuery", text |-> PriorSaved[Len(PriorSaved)]]

\* the session goes on
LongSpec == SessionInProgress /\ [][Next]_vars

\* the searches of a session that starts with the request for kbSrc
LoadNext ==
  \/ \E input \in SearchInputs : HandleSearch(input)
  \/ \E q \in DirectQueries : ProcessQueryCall(q)
  \/ \E p \in pending, data \in ServiceData : FetchOk(p, data)
  \/ \E p \in pending : FetchFailed(p)

LoadSpec == Loaded /\ [][LoadNext]_vars

\* the bookmark entry points, and a reload of what they saved
BookmarkNext ==
  \/ \E text \in BookmarkTexts : SaveQuery(text)
  \/ \E id \in BookmarkIds : BookmarkFact(id)
  \/ LoadPersistedData

BookmarkSpec == SessionInProgress /\ [][BookmarkNext]_vars

\* a call of detectIntent(query)
DetectIntentCall(query) ==
  /\ ops < MaxOps
  /\ ops' = ops + 1
  /\ lastOp' = [op |-> "detectIntent", query |-> query, intent |-> detectIntent(query)]
  /\ UNCHANGED <<kb, context, queryCache, queryPatterns, bookmarks, store, pending, shown,
                 renders, now, tokenCache, accepted, ctxOwner>>

IntentNext == \E query \in IntentQueries : DetectIntentCall(query)

IntentSpec == Init /\ [][IntentNext]_vars

\* a call of generateChips on a ranked list of ChipCorpus; what it returns
\* depends on its inputs alone, so one call per behaviour is explored
GenerateChipsCall(query, ranking, lastTopic, count, seed) ==
  LET facts == [k \in DOMAIN ranking |-> ChipCorpus[ranking[k]]]
      intent == detectIntent(query)
      patterns == [InitialPatterns EXCEPT ![intent] = count]
      categories == {ChipCorpus[i].category : i \in DOMAIN ChipCorpus}
      candidates == CandidateChips(smartTokenize(query), facts, facts[1].topic,
                                   facts[1].category, intent, patterns, lastTopic, categories)
  IN /\ ops = 0
     /\ ops' = ops + 1
     /\ lastOp' = [op |-> "generateChips", query |-> query, ranked |-> ranking,
                   lastTopic |-> lastTopic, candidates |-> candidates,
                   chips |-> generateChips(smartTokenize(query), facts, facts[1].topic,
                                           facts[1].category, intent, patterns, lastTopic,
                                           categories, seed)]
     /\ UNCHANGED <<kb, context, queryCache, queryPatterns, bookmarks, store, pending, shown,
                    renders, now, tokenCache, accepted, ctxOwner>>

ChipsNext ==
  \E query \in ChipQueries, ranking \in ChipRankings, lastTopic \in ChipLastTopics,
     count \in ChipIntentCounts, seed \in ShuffleSeeds :
       GenerateChipsCall(query, ranking, lastTopic, count, seed)

ChipsSpec == Init /\ [][ChipsNext]_vars

\* details of the response (line 873): the ranked facts outside mainFacts,
\* the first five, here by id; mainIds are the ids of the main facts
DetailFacts(ranked, mainIds) ==
  FirstK(SelectSeq([k \in DOMAIN ranked |-> ranked[k].id], LAMBDA id : id \notin mainIds), 5)

\* the data-id of the feedback buttons renderResults puts next to each
\* detail (lines 1040-1041): response.cites[i + 1] when that is truthy,
\* <<>> for a detail without buttons
FeedbackButtons(details, cites) ==
  [k \in DOMAIN details |-> IF k \in DOMAIN cites /\ cites[k] # 0 THEN <<cites[k]>> ELSE <<>>]

\* what renderResults shows under More Details for a composed response:
\* the fact of each detail and the data-id of its buttons
Rendered(composed, ranked) ==
  [facts |-> DetailFacts(ranked, Range(composed.sources)),
   buttons |-> FeedbackButtons(DetailFacts(ranked, Range(composed.sources)), composed.cites)]

\* the composition of lines 834-871 for a query and a ranked list of
\* ComposeCorpus; it depends on its inputs alone, so one call per behaviour
\* is explored
ComposeCall(query, ranking) ==
  /\ ops = 0
  /\ ops' = ops + 1
  /\ lastOp' = [op |-> "compose", query |-> query, intent |-> detectIntent(query),
                ranked |-> ranking,
                composed |-> Compose(query, detectIntent(query),
                                     [k \in DOMAIN ranking |-> ComposeCorpus[ranking[k]]],
                                     smartTokenize(query)),
                details |-> Rendered(Compose(query, detectIntent(query),
                                             [k \in DOMAIN ranking |-> ComposeCorpus[ranking[k]]],
                                             smartTokenize(query)),
                                     [k \in DOMAIN ranking |-> ComposeCorpus[ranking[k]]])]
  /\ UNCHANGED <<kb, context, queryCache, queryPatterns, bookmarks, store, pending, shown,
                 renders, now, tokenCache, accepted, ctxOwner>>

ComposeNext == \E query \in ComposeQueries, ranking \in ComposeRankings : ComposeCall(query, ranking)

ComposeSpec == Init /\ [][ComposeNext]_vars

\* the histories a scored query can follow
Bm25Histories ==
  UNION {[1..n -> {Entry(q, "") : q \in Bm25HistoryQueries}] : n \in 0..MaxBm25History}

\* the BM25 loop of processQuery (lines 777-787) for a query, the history
\* it follows and a fact; it depends on these alone, so one call per
\* behaviour is explored
Bm25Call(query, history, i) ==
  /\ ops = 0
  /\ ops' = ops + 1
  /\ lastOp' = [op |-> "bm25", query |-> query, history |-> history, doc |-> i,
                words |-> Range(Engine.queries[query].words),
                keys |-> QBowKeys(Engine.queries[query].words,
                                  [context EXCEPT !.history = history], Engine.queries),
                tokens |-> Range(Engine.index.facts[i].tokens),
                bow |-> DOMAIN Engine.index.facts[i].bow,
                bm25 |-> BM25(QBowKeys(Engine.queries[query].words,
                                       [context EXCEPT !.history = history], Engine.queries),
                              Engine.index.bm25[i])]
  /\ UNCHANGED <<kb, context, queryCache, queryPatterns, bookmarks, store, pending, shown,
                 renders, now, tokenCache, accepted, ctxOwner>>

Bm25Next ==
  \E query \in AllQueries \ {""}, history \in Bm25Histories, i \in Docs :
    Bm25Call(query, history, i)

Bm25Spec == Init /\ [][Bm25Next]_vars

(***************************************************************************)
(* The v4 engine (src/unnamed/part_000).  Its state is this.context (in    *)
(* context), the number of searches accepted, which stands for Date.now()  *)
(* in the entries (in accepted), localStorage["nova-history"] (in store)   *)
(* and the history list of the page (in shown); the other variables keep   *)
(* the values they are constructed with.  processQuery is taken by its     *)
(* outcome: no fact above the threshold, or the topic of the best fact.    *)
(***************************************************************************)
V4_MAX_HISTORY == 50
\* what the search box can hold
V4Inputs == {"why is sleep important", " what is war ", "  "}
\* the outcome of ranking: NoTopic for an empty ranked list
NoTopic == "<none>"
V4Outcomes == {NoTopic, "health", "history"}
\* searches behind a v4 session in progress
PriorV4Searches == 49

\* { query, ...response, ts: Date.now() }: the response of sorry() has no topic
V4Entry(query, topic, ts) ==
  [query |-> query, topic |-> IF topic = NoTopic THEN Null ELSE topic, ts |-> ts]

\* Array.prototype.reverse(): reverses the array in place and returns it
Reverse(arr) == [k \in 1..Len(arr) |-> arr[Len(arr) + 1 - k]]

\* this.context.history after renderHistory() (lines 551-568): without a
\* history area the method returns before it touches the history
V4RenderHistory(history, historyArea) == IF historyArea THEN Reverse(history) ELSE history

\* this.context.history after the push, the shift and the renderHistory()
\* of handleSearch (lines 280-284)
V4AfterSearch(history, e, historyArea) ==
  LET h == Append(history, e)
  IN V4RenderHistory(IF Len(h) > V4_MAX_HISTORY THEN Tail(h) ELSE h, historyArea)

\* the history after the searches numbered from..to for a query that
\* matches nothing, on history h
RECURSIVE V4Searched(_, _, _, _)
V4Searched(h, from, to, historyArea) ==
  IF from > to \/ h \notin Seq([query : STRING, topic : STRING, ts : Nat]) THEN h
  ELSE IF from = to THEN V4AfterSearch(h, V4Entry("zzz", NoTopic, from), historyArea)
  ELSE V4Searched(V4Searched(h, from, (from + to) \div 2, historyArea),
                  (from + to) \div 2 + 1, to, historyArea)

\* the v4 engine after `prior` searches, on a page with or without a
\* history area; initUI has rendered the empty history (lines 261-262)
V4Constructed(prior, historyArea) ==
  /\ context = [currentTopic |-> Null, lastTopic |-> Null,
                history |-> V4Searched(<<>>, 1, prior, historyArea)]
  /\ accepted = prior
  /\ store = [history |-> IF prior = 0 THEN Absent
                          ELSE Stored(V4Searched(<<>>, 1, prior, historyArea))]
  /\ shown = [historyArea |-> historyArea]
  /\ kb = [i \in Docs |-> [views |-> 0, feedback |-> 0, lastView |-> 0, weight |-> Priority(i)]]
  /\ queryCache = << >>
  /\ queryPatterns = InitialPatterns
  /\ bookmarks = <<>>
  /\ pending = {}
  /\ renders = << >>
  /\ now = 0
  /\ tokenCache = <<>>
  /\ ctxOwner = 0
  /\ ops = 0
  /\ lastOp = [op |-> "v4constructor"]

V4Init == \E prior \in {0, PriorV4Searches}, historyArea \in BOOLEAN : V4Constructed(prior, historyArea)

\* handleSearch() of the v4 engine with `input` in the search box, when
\* processQuery ends in `outcome` (lines 274-287, 321-325)
V4HandleSearch(input, outcome) ==
  /\ ops < MaxOps
  /\ ops' = ops + 1
  /\ IF Trim(input) = ""
     THEN /\ lastOp' = [op |-> "v4handleSearch", query |-> "", path |-> "empty"]
          /\ UNCHANGED <<context, accepted, store>>
     ELSE /\ accepted' = accepted + 1
          /\ context' = [currentTopic |-> IF outcome = NoTopic THEN context.currentTopic ELSE outcome,
                         lastTopic |-> IF outcome = NoTopic THEN context.lastTopic
                                       ELSE context.currentTopic,
                         history |-> V4AfterSearch(context.history,
                                                   V4Entry(Trim(input), outcome, accepted + 1),
                                                   shown.historyArea)]
          /\ store' = [history |-> Stored(V4AfterSearch(context.history,
                                                       V4Entry(Trim(input), outcome, accepted + 1),
                                                       shown.historyArea))]
          /\ lastOp' = [op |-> "v4handleSearch", query |-> Trim(input), path |-> "searched",
                        ts |-> accepted + 1]
  /\ UNCHANGED <<kb, queryCache, queryPatterns, bookmarks, pending, shown, renders, now,
                 tokenCache, ctxOwner>>

V4Next == \E input \in V4Inputs, outcome \in V4Outcomes : V4HandleSearch(input, outcome)

V4Spec == V4Init /\ [][V4Next]_vars

\* the texts tokenized so far in a session of many distinct queries
PriorTexts == [k \in 1..PriorTokenized |-> "t" \o Numeral(k)]

\* the engine after smartTokenize was called on each of them
ManyTokenized == Constructed /\ tokenCache = AfterTokenizeAll(InitialTokenCache, PriorTexts)

TokenNext == \E text \in TokenTexts : SmartTokenizeCall(text)

TokenSpec == ManyTokenized /\ [][TokenNext]_vars

\* a fetch promise settles: the browser runs one of its handlers
Settle == \E p \in pending : FetchFailed(p) \/ \E data \in ServiceData : FetchOk(p, data)

\* Spec with every request to the service settled in the end
FairSpec == Spec /\ WF_vars(Settle)

(***************************************************************************)
(* Properties                                                              *)
(***************************************************************************)
\* whether the operation that produced this state ran processQuery to `path`
Did(op, path) == lastOp.op = op /\ "path" \in DOMAIN lastOp /\ lastOp.path = path

RanProcessQuery(path) == Did("handleSearch", path) \/ Did("processQuery", path)

\* the facts behind the first TOP_K elements of a ranked list
TopFacts(ranked) == {ranked[k].idx : k \in 1..Min(TOP_K, Len(ranked))}

\* the ids of a ranked list, best first
Order(ranked) == [k \in DOMAIN ranked |-> ranked[k].id]

\* the part of the context a response writes
TopicState(ctx) == <<ctx.currentTopic, ctx.currentCategory, ctx.confidence>>

\* the mutable relevance state of the facts
Relevance(kbv) == [i \in Docs |-> <<kbv[i].views, kbv[i].feedback, kbv[i].weight>>]

\* C1: in every reachable state every document's weight lies in [0.7, 1.0]
C1_WeightInRange ==
  \A i \in Docs : kb[i].weight >= WEIGHT_FLOOR /\ kb[i].weight <= WEIGHT_CEIL

\* C2: a processQuery call that ranks at least one document adds exactly one
\* view to each of the (up to) 8 best documents of the index and changes no
\* other document's views
C2_TopViewsIncremented ==
  [][RanProcessQuery("ranked")' =>
       \A i \in Docs :
         kb'[i].views = kb[i].views + (IF i \in TopFacts(lastOp'.ranked) THEN Scale ELSE 0)]_vars

\* C3: every result processQuery keeps scores above 0.1, the results are in
\* non-increasing order of score, and results of equal score are in corpus order
C3_KeptResultsOrdered ==
  RanProcessQuery("ranked") =>
    LET ranked == lastOp.ranked
    IN /\ \A k \in DOMAIN ranked : 10 * ranked[k].score > Scale
       /\ \A j, k \in DOMAIN ranked :
            (j < k) => \/ ranked[j].score > ranked[k].score
                     \/ (ranked[j].score = ranked[k].score /\ ranked[j].idx < ranked[k].idx)

\* a query was ranked with two documents of equal score among its results
C3_Witness ==
  /\ RanProcessQuery("ranked")
  /\ \E j, k \in DOMAIN lastOp.ranked : j < k /\ lastOp.ranked[j].score = lastOp.ranked[k].score

\* C4: applyFeedback(id, +1) never lowers a document's weight and
\* applyFeedback(id, -1) never raises one
C4_FeedbackMonotone ==
  [][lastOp'.op = "applyFeedback" =>
       \A i \in Docs :
         /\ (lastOp'.value = 1) => (kb'[i].weight >= kb[i].weight)
         /\ (lastOp'.value = -1) => (kb'[i].weight <= kb[i].weight)]_vars

\* C5: processQuery with an empty or whitespace-only query returns the canned
\* response and leaves the documents, the context and the query cache as they were
C5_BlankQueryShortCircuits ==
  [][(lastOp'.op = "processQuery" /\ Trim(lastOp'.query) = "") =>
       /\ lastOp'.response = InitialResponse
       /\ lastOp'.path \notin {"ranked", "notfound"}
       /\ UNCHANGED <<kb, context, queryCache>>]_vars

\* C6: when no document scores above 0.1, processQuery returns a response
\* whose main text contains the query and whose details and citations are
\* empty, and changes no document's views, feedback or weight
C6_NotFoundResponse ==
  [][RanProcessQuery("notfound")' =>
       /\ Includes(lastOp'.response.main, lastOp'.query)
       /\ lastOp'.response.details = <<>>
       /\ lastOp'.response.cites = <<>>
       /\ Relevance(kb') = Relevance(kb)]_vars

\* a query that matches nothing was answered
C6_Witness == RanProcessQuery("notfound") /\ lastOp.query = "zzz nonsense"

\* C7: with the corpus, the session state and the query fixed, the ranking
\* step yields the same order whenever it runs: the order at the present
\* clock is the order at any other clock
C7_OrderIndependentOfClock ==
  \A q \in {"solar panels"} :
    Order(Ranked(kb, q, context, now)) = Order(Ranked(kb, q, context, 0))

\* C8: once handleSearch has accepted a later query, nothing of an earlier
\* query writes the topic, the category or the confidence of the context
C8_NoLateContextUpdate ==
  [][TopicState(context') # TopicState(context) => ctxOwner' = accepted']_vars

\* C9: a non-empty query of intent weather, food or address is handed to the
\* external service; the call creates no cache entry and changes no document
C9_ExternalIntentsBypassCorpus ==
  [][(/\ lastOp'.op = "handleSearch"
      /\ lastOp'.query # ""
      /\ IntentOf(lastOp'.query) \in {"weather", "food", "address"}) =>
       /\ lastOp'.path = "external"
       /\ [seq |-> accepted', query |-> lastOp'.query] \in pending' \ pending
       /\ queryCache' = queryCache
       /\ Relevance(kb') = Relevance(kb)]_vars

\* a food query was dispatched to the service
C9_Witness == Did("handleSearch", "external") /\ lastOp.query = "food near me"

\* every accepted query is either in flight with nothing rendered for it or
\* has been rendered exactly once
RenderedOnce ==
  \A s \in 1..accepted :
    IF \E p \in pending : p.seq = s THEN s \notin DOMAIN renders
    ELSE s \in DOMAIN renders /\ Len(renders[s]) = 1

\* what settling a request and answering a corpus query do
SettledStep ==
  /\ (lastOp'.op = "fetchOk") =>
       renders'[lastOp'.seq] = <<"service">> /\ shown'.response \in ServiceData
  /\ (lastOp'.op = "fetchFailed") =>
       /\ renders'[lastOp'.seq] = <<"error">>
       /\ shown'.response = ErrorResponse
       /\ TopicState(context') = TopicState(context)
       /\ UNCHANGED <<kb, queryCache, store>>
  /\ (lastOp'.op = "handleSearch" /\ lastOp'.path \in {"ranked", "notfound", "cached"}) =>
       renders'[lastOp'.seq] = <<"corpus">> /\ shown'.response = lastOp'.response

PushedOldestOut(before, e, after, cap) ==
  /\ Len(after) <= cap
  /\ after # <<>> /\ after[Len(after)] = e
  /\ SubSeq(after, 1, Len(after) - 1) = IF Len(before) < cap THEN before ELSE Tail(before)

\* C13: after every smartTokenize call the token cache holds at most
\* MAX_CACHE_SIZE entries, one per text; a call on a cached text leaves the
\* cache as it was and returns the cached tokens; a call on a new text puts
\* it last and, when the cache was full, removes the entry inserted earliest
TokenizeStep ==
  (lastOp'.op = "smartTokenize" /\ ops' # ops) =>
    (IF CacheHas(tokenCache, lastOp'.text)
     THEN tokenCache' = tokenCache /\ lastOp'.result = CacheGet(tokenCache, lastOp'.text)
     ELSE PushedOldestOut(tokenCache, [key |-> lastOp'.text, val |-> lastOp'.result],
                          tokenCache', MAX_CACHE_SIZE))

C13_TokenCacheBounded ==
  /\ [](/\ Len(tokenCache) <= MAX_CACHE_SIZE
        /\ Cardinality({tokenCache[k].key : k \in DOMAIN tokenCache}) = Len(tokenCache))
  /\ [][TokenizeStep]_vars

\* a new text was tokenized with the cache full, and a cached one after it
C13_Witness ==
  /\ lastOp.op = "smartTokenize"
  /\ Len(tokenCache) = MAX_CACHE_SIZE
  /\ tokenCache[1].key # InitialTokenCache[1].key
  /\ tokenCache[Len(tokenCache)].key # lastOp.text

\* the patterns among the six named ones that match the query, by position
NamedMatches(query) ==
  LET q == ToLowerCase(query) IN
  (IF IsDefinition(q) THEN {1} ELSE {}) \cup (IF IsComparison(q) THEN {2} ELSE {})
    \cup (IF IsList(q) THEN {3} ELSE {}) \cup (IF IsWeather(q) THEN {4} ELSE {})
    \cup (IF IsFood(q) THEN {5} ELSE {}) \cup (IF IsAddress(q) THEN {6} ELSE {})

\* C14: detectIntent returns one of the seven intent names: the first, in the
\* order definition, comparison, list, weather, food, address, whose pattern
\* matches the query, and general only when none of the six matches
C14_FirstMatchingIntent ==
  lastOp.op = "detectIntent" =>
    LET m == NamedMatches(lastOp.query) IN
    /\ lastOp.intent \in {"definition", "comparison", "list", "weather", "food", "address",
                          "general"}
    /\ (m = {}) <=> (lastOp.intent = "general")
    /\ (m # {}) =>
         (lastOp.intent = <<"definition", "comparison", "list", "weather", "food",
                            "address">>[CHOOSE i \in m : \A j \in m : i <= j])

\* a query that several patterns match was classified
C14_Witness ==
  /\ lastOp.op = "detectIntent"
  /\ Cardinality(NamedMatches(lastOp.query)) >= 2
  /\ lastOp.intent = "comparison"

\* C15: generateChips returns at most 8 strings, pairwise distinct, each of
\* at most 50 characters
C15_ChipsBounded ==
  lastOp.op = "generateChips" =>
    /\ Len(lastOp.chips) <= 8
    /\ \A i, j \in DOMAIN lastOp.chips : (i # j) => (lastOp.chips[i] # lastOp.chips[j])
    /\ \A i \in DOMAIN lastOp.chips : Len(lastOp.chips[i]) <= 50

\* eight chips were returned from more candidates, one of them repeated, for
\* a ranked list with a snippet of more than 50 characters
C15_Witness ==
  /\ lastOp.op = "generateChips"
  /\ Len(lastOp.chips) = 8
  /\ Len(lastOp.candidates) > 8
  /\ \E i, j \in DOMAIN lastOp.candidates : i # j /\ lastOp.candidates[i] = lastOp.candidates[j]
  /\ \E k \in DOMAIN lastOp.ranked : Len(Snippet(ChipCorpus[lastOp.ranked[k]].text)) > 50

\* C16: when handleSearch answers a query from the corpus right after it
\* answered another, and the best topic B of the second differs from the best
\* topic A of the first, the chips generated for the second include
\* "Compare B to A"
ComparisonSuggested ==
  (/\ Did("handleSearch", "ranked")
   /\ lastOp'.op = "handleSearch" /\ lastOp'.path = "ranked" /\ lastOp'.seq # lastOp.seq
   /\ lastOp'.response.topic # lastOp.response.topic)
    => (\E k \in DOMAIN lastOp'.chips :
          lastOp'.chips[k] = "Compare " \o lastOp'.response.topic \o " to "
                               \o lastOp.response.topic)

C16_TopicChangeSuggestsComparison == [][ComparisonSuggested]_vars

\* C19: an engine whose index holds no document accepts no query: no
\* handleSearch and no processQuery runs on it
C19_EmptyIndexRejectsQueries ==
  (DOMAIN kb = {}) => lastOp.op \notin {"handleSearch", "processQuery"}

SourceOf(composed, k) ==
  IF k \in DOMAIN composed.sources THEN composed.sources[k]
  ELSE composed.appended[CHOOSE j \in DOMAIN composed.appended : composed.appended[j].key = k].from

\* C17: every key of the citation map has its marker in the composed main
\* text, and the value under the key is the id of the fact whose text the
\* marker follows
C17_CitationsMatchMarkers ==
  lastOp.op = "compose" =>
    \A k \in DOMAIN lastOp.composed.cites :
      /\ Includes(lastOp.composed.main, Marker(k))
      /\ lastOp.composed.cites[k] = SourceOf(lastOp.composed, k)

\* C18: a support is appended only while the running word count is below
\* 100, and the composed main text is at most 100 words long, its draft at
\* most one snippet longer
C18_WordBudget ==
  lastOp.op = "compose" =>
    LET c == lastOp.composed IN
    /\ \A j \in DOMAIN c.appended : c.appended[j].before < 100
    /\ Len(SplitWs(c.main)) <= 100
    /\ (c.appended # <<>>) =>
         (Len(SplitWs(c.draft)) <= 100 + c.appended[Len(c.appended)].words)

\* a main fact of 50 words or more was composed with two supports appended,
\* the first cut down to the words the running count left for it
C18_Witness ==
  /\ lastOp.op = "compose"
  /\ Len(lastOp.composed.appended) = 2
  /\ lastOp.composed.appended[1].before >= 50
  /\ lastOp.composed.appended[1].words = SnippetWords(lastOp.composed.appended[1].before)

\* the v3 engine's push on histories of every length up to its capacity
V3HistoryBounded ==
  \A n \in 0..V3_MAX_HISTORY :
    PushedOldestOut([k \in 1..n |-> k], n + 1, V3PushHistory([k \in 1..n |-> k], n + 1),
                    V3_MAX_HISTORY)

\* a query handleSearch accepted is pushed as the newest entry of the history
HistoryStep ==
  (lastOp'.op = "handleSearch" /\ lastOp'.path # "empty") =>
    /\ Len(context'.history) <= MAX_HISTORY
    /\ context'.history[Len(context'.history)].query = lastOp'.query
    /\ PushedOldestOut(context.history, context'.history[Len(context'.history)],
                       context'.history, MAX_HISTORY)

\* C11: the history never holds more than its capacity (10; 20 in the v3
\* engine), its entries are in submission order, and a push on a full
\* history removes the oldest entry
C11_HistoryBounded ==
  /\ [](Len(context.history) <= MAX_HISTORY /\ V3HistoryBounded)
  /\ [][HistoryStep]_vars

\* a search was accepted when the history was full
C11_Witness ==
  /\ lastOp.op = "handleSearch" /\ lastOp.path # "empty"
  /\ accepted > MAX_HISTORY
  /\ Len(context.history) = MAX_HISTORY

\* the text a bookmark call is about: the query, or the text of the fact
\* with the id (none for an unknown id)
BookmarkTextOf(op) ==
  IF op.op = "saveQuery" THEN {op.text}
  ELSE {KB[i].text : i \in {j \in Docs : FactId(j) = op.id}}

BookmarkStep ==
  lastOp'.op \in {"saveQuery", "bookmarkFact"} =>
    \A text \in BookmarkTextOf(lastOp') :
      IF text \in Range(bookmarks)
      THEN UNCHANGED <<bookmarks, store>>
      ELSE PushedOldestOut(bookmarks, text, bookmarks', MAX_BOOKMARKS)

\* C12: the bookmark list never holds more than 15 entries or one text
\* twice; a new text is added as the last entry, the oldest entry leaving a
\* full list, and a text already present changes nothing
C12_BookmarksBounded ==
  /\ [](/\ Len(bookmarks) <= MAX_BOOKMARKS
        /\ \A j, k \in DOMAIN bookmarks : bookmarks[j] = bookmarks[k] => j = k)
  /\ [][BookmarkStep]_vars

\* a text was added to a full list
C12_Witness ==
  /\ lastOp.op \in {"saveQuery", "bookmarkFact"}
  /\ Len(bookmarks) = MAX_BOOKMARKS
  /\ bookmarks[1] # PriorSaved[1]
  /\ \E text \in BookmarkTextOf(lastOp) : bookmarks[Len(bookmarks)] = text

\* what the four keys of the session hold, read back key by key: the
\* history, the bookmarks, the intent counters, and an entry with the
\* counters of every fact that has views or feedback
StoreHolds(st, kbv, history, bm, patterns) ==
  /\ st.context.has /\ st.context.val = history
  /\ st.bookmarks.has /\ st.bookmarks.val = bm
  /\ st.patterns.has /\ st.patterns.val = patterns
  /\ st.views.has
  /\ \A i \in DOMAIN kbv :
       IF kbv[i].views > 0 \/ kbv[i].feedback # 0
       THEN /\ i \in DOMAIN st.views.val
            /\ st.views.val[i].count = kbv[i].views
            /\ st.views.val[i].feedback = kbv[i].feedback
            /\ st.views.val[i].lastView = kbv[i].lastView
       ELSE i \notin DOMAIN st.views.val

\* a step of handleSearch past the empty-query guard, or of applyFeedback
\* for the id of a fact, leaves the store holding the state it ends in; a
\* step of loadPersistedData reads a key never written as empty
PersistedStep ==
  /\ ((lastOp'.op = "handleSearch" /\ lastOp'.path # "empty")
       \/ (lastOp'.op = "applyFeedback" /\ \E i \in DOMAIN kb : FactId(i) = lastOp'.id))
      => StoreHolds(store', kb', context'.history, bookmarks', queryPatterns')
  /\ lastOp'.op = "loadPersistedData" =>
       /\ ~store.context.has => context'.history = <<>>
       /\ ~store.bookmarks.has => bookmarks' = <<>>
       /\ ~store.patterns.has => queryPatterns' = InitialPatterns
       /\ ~store.views.has => \A i \in DOMAIN kb' : kb'[i].views = 0 /\ kb'[i].feedback = 0

\* C21: after every handled query and every applyFeedback call for an
\* existing fact the store holds the current history, bookmarks, intent
\* counters and view/feedback counters, and loadPersistedData reads an
\* absent key as empty
C21_StoreFollowsState == [][PersistedStep]_vars

\* feedback on a fact was saved in a session with a handled query behind it
C21_Witness ==
  /\ lastOp.op = "applyFeedback"
  /\ store.views.has /\ DOMAIN store.views.val # {}
  /\ Len(context.history) >= 1
  /\ store.context.val = context.history

\* a step of loadPersistedData leaves the history, the bookmarks, the
\* intent counters and the counters of the facts as the store holds them
RestoredStep ==
  lastOp'.op = "loadPersistedData" =>
    /\ store.context.has => context'.history = store.context.val
    /\ store.bookmarks.has => bookmarks' = store.bookmarks.val
    /\ store.patterns.has => queryPatterns' = store.patterns.val
    /\ store.views.has =>
         \A i \in DOMAIN store.views.val :
           /\ kb'[i].feedback = store.views.val[i].feedback
           /\ kb'[i].views = store.views.val[i].count

\* the instance that starts after another one saved its data holds that
\* data once its constructor has run
SessionStartStep ==
  (lastOp'.op = "constructor" /\ lastOp'.saved.context.has) =>
    /\ context'.history = lastOp'.saved.context.val
    /\ bookmarks' = lastOp'.saved.bookmarks.val
    /\ queryPatterns' = lastOp'.saved.patterns.val
    /\ \A i \in DOMAIN lastOp'.saved.views.val :
         kb'[i].feedback = lastOp'.saved.views.val[i].feedback

\* C22: loadPersistedData restores what savePersistedData last wrote, at
\* session start as well as later
C22_SessionStartRestores == [][RestoredStep /\ SessionStartStep]_vars

\* the topics of the main facts of a composed response
MainTopics(composed) ==
  {ComposeCorpus[composed.sources[k] + 1].topic : k \in DOMAIN composed.sources}

\* C23: the main facts the general strategy selects, at most 3, cover at
\* most 2 distinct topics
C23_GeneralMainTwoTopics ==
  (lastOp.op = "compose" /\ lastOp.intent = "general") =>
    /\ Cardinality(DOMAIN lastOp.composed.sources) <= 3
    /\ Cardinality(MainTopics(lastOp.composed)) <= 2

\* C24: a comparison query from which the two entities cannot be parsed is
\* answered with the main text "No comparison available." and an empty
\* citation map
C24_UnparsedComparisonMessage ==
  (lastOp.op = "compose" /\ lastOp.intent = "comparison"
     /\ ComparisonEntities(lastOp.query) = <<>>) =>
    /\ lastOp.composed.main = "No comparison available."
    /\ lastOp.composed.cites = <<>>

\* C25: with n cited snippets in a composed response, the main facts and
\* the appended supports, the keys of the citation map are 1..n
C25_CitationKeysConsecutive ==
  lastOp.op = "compose" =>
    DOMAIN lastOp.composed.cites
      = 1..(Cardinality(DOMAIN lastOp.composed.sources) + Len(lastOp.composed.appended))

\* the counters and the weight of a fact
Counters(f) == <<f.views, f.feedback, f.weight>>

\* a step of applyFeedback adds the value to the feedback of the fact with
\* the id and leaves the other facts alone, and for an id of no fact it
\* leaves the facts and the store alone; a step that is neither a load, nor
\* applyFeedback, nor a processQuery that ranked facts leaves every fact's
\* counters and weight alone
FrameStep ==
  /\ lastOp'.op = "applyFeedback" =>
       IF \E i \in DOMAIN kb : FactId(i) = lastOp'.id
       THEN \A i \in DOMAIN kb :
              IF FactId(i) = lastOp'.id
              THEN /\ kb'[i].feedback = kb[i].feedback + lastOp'.value
                   /\ kb'[i].views = kb[i].views
              ELSE Counters(kb'[i]) = Counters(kb[i])
       ELSE kb' = kb /\ store' = store
  /\ (/\ lastOp'.op \notin {"applyFeedback", "loadPersistedData"}
      /\ ~(lastOp'.op \in {"handleSearch", "processQuery"} /\ lastOp'.path = "ranked"))
       => \A i \in DOMAIN kb : Counters(kb'[i]) = Counters(kb[i])

\* C26: applyFeedback changes the feedback of the fact with the id and of no
\* other fact, does nothing for an id of no fact, and only it and the
\* ranking of processQuery change a fact's counters or weight after load
C26_FeedbackFrame == [][FrameStep]_vars

\* feedback for an id of no fact, in a session where a fact has feedback
C26_Witness ==
  /\ lastOp.op = "applyFeedback"
  /\ \A i \in DOMAIN kb : FactId(i) # lastOp.id
  /\ \E i \in DOMAIN kb : kb[i].feedback # 0
  /\ store.views.has

\* a call of processQuery, by itself or from handleSearch, for a query the
\* cache holds: the response is the cached one, and the facts and the cache
\* stay as they are; called by itself it leaves the store alone as well
CachedStep ==
  (lastOp'.op \in {"processQuery", "handleSearch"} /\ lastOp'.query \in DOMAIN queryCache
     /\ "response" \in DOMAIN lastOp') =>
    /\ lastOp'.response = queryCache[lastOp'.query]
    /\ lastOp'.path = "cached"
    /\ kb' = kb
    /\ queryCache' = queryCache
    /\ lastOp'.op = "processQuery" => store' = store

\* C27: processQuery for a query it has processed returns the response it
\* stored and changes no fact, no cache entry and nothing in the store
C27_CachedQueryChangesNothing == [][CachedStep]_vars

\* a query with matching facts was answered from the cache after feedback
\* on a fact
C27_Witness ==
  /\ lastOp.op = "processQuery"
  /\ lastOp.path = "cached"
  /\ lastOp.response.topic # ""
  /\ \E i \in DOMAIN kb : kb[i].feedback # 0

\* C28: every detail of a rendered response has feedback buttons, and the
\* id they pass to applyFeedback is the id of the detail's fact
C28_FeedbackButtonsMatchDetails ==
  lastOp.op = "compose" =>
    \A k \in DOMAIN lastOp.details.facts :
      lastOp.details.buttons[k] = <<lastOp.details.facts[k]>>

\* the newest history entry for a query
NewestEntry(history, query) ==
  history[Greatest({k \in DOMAIN history : history[k].query = query})]

\* the entry handleSearch pushes for a corpus query carries the topic of the
\* response, and when the service answers a dispatched query the entry
\* pushed for that query carries the topic of the answer
TopicRecordedStep ==
  /\ (lastOp'.op = "handleSearch" /\ "response" \in DOMAIN lastOp')
       => context'.history[Len(context'.history)].topic = lastOp'.response.topic
  /\ lastOp'.op = "fetchOk" =>
       \A p \in pending \ pending' :
         (\E k \in DOMAIN context'.history : context'.history[k].query = p.query)
           => NewestEntry(context'.history, p.query).topic = context'.currentTopic

\* C29: every history entry records the topic of the response to its own
\* query, for corpus queries and for queries sent to the service
C29_HistoryTopicOfOwnQuery == [][TopicRecordedStep]_vars

\* the times of the entries of a history
TimesOf(history) == {history[k].ts : k \in DOMAIN history}

\* after a search of the v4 engine the history is in submission order, and
\* a search on a full history removes the oldest entry
V4HistoryStep ==
  (lastOp'.op = "v4handleSearch" /\ lastOp'.path = "searched") =>
    /\ \A j, k \in DOMAIN context'.history :
         j < k => context'.history[j].ts < context'.history[k].ts
    /\ Len(context.history) = V4_MAX_HISTORY =>
         TimesOf(context'.history)
           = (TimesOf(context.history) \cup {lastOp'.ts})
               \ {CHOOSE t \in TimesOf(context.history) : \A u \in TimesOf(context.history) : t <= u}

\* C30: in the v4 engine the history stays in submission order through
\* renderHistory, and the entry removed at capacity is the oldest
C30_V4HistoryInSubmissionOrder == [][V4HistoryStep]_vars
====
